---- MODULE Spec2Model ----
(***************************************************************************)
(* State-machine model of src/script.js (second, modular revision of the   *)
(* portfolio script): page-load choreography, reveal cascade, section      *)
(* observers, scroll-linked effects, programmatic scrolling and theme      *)
(* toggling.  Time is kept as the remaining delay of every pending timer.  *)
(***************************************************************************)
EXTENDS Integers, Sequences, FiniteSets, TLC

\* ------------------------------------------------------------------------
\* Bounds of the model (not program constants)
\* ------------------------------------------------------------------------
Quantum == 200
MaxUserEvents == 2
MaxTransitionEnds == 2
ViewportH == 600

\* ------------------------------------------------------------------------
\* Program constants
\* ------------------------------------------------------------------------
DelayHeaderText == 0
DelayAvatar == 1100
DelayMobileSeparator == 1250
DelayDescription == 1500
DelaySocialIcons == 1000
SocialIconStagger == 50
DelayBanner == 1000
DelayThumbnails == 1600
DelayRotatingWords == 3200
DelayCaratIndicator == 3000
RotatingStartDelay == 3200
StepEveryMs == 2400
TransitionMs == 1600
PhraseCount == 3
PreloaderFadeFallback == 350
NoLottieDelay == 500
ScrollDuration == 400
ScrollResetSlack == 50
NavOffset == 160
HashScrollDelay == 100
MenuScrollDelay == 400
NavOnTopDelay == 400
MenuFocusDelay == 100
ThemeLockMs == 300
LogoVisibleDelay == 100
ThumbStoreDelay == 100
ThumbInitialUpdateDelay == 1500
MobileBreakpoint == 768
BannerRangeDesktop == 450
BannerRangeMobile == 300
ThumbEffectRange == 300
ThumbStartOffset == 50

\* ------------------------------------------------------------------------
\* Page geometry (document coordinates, px) of the modelled markup
\* ------------------------------------------------------------------------
Sections == {"desc", "gen", "text", "exp"}
SectionOrder == <<"desc", "gen", "text", "exp">>
Thumbs == {"t1", "t2"}
ThumbOrder == <<"t1", "t2">>

Geo ==
  [ banner |-> [top |-> 0,    height |-> 500],
    desc   |-> [top |-> 500,  height |-> 200],
    gen    |-> [top |-> 800,  height |-> 200],
    t1     |-> [top |-> 1000, height |-> 300],
    t2     |-> [top |-> 1300, height |-> 300],
    text   |-> [top |-> 1700, height |-> 300],
    exp    |-> [top |-> 2000, height |-> 300],
    pills  |-> [top |-> 2300, height |-> 200],
    footer |-> [top |-> 2500, height |-> 400] ]

DocHeight == Geo.footer.top + Geo.footer.height
MaxScrollY == DocHeight - ViewportH

NoPos == [top |-> -1, height |-> -1]
NoStyle == [op |-> -1, sc |-> -1]

Max(a, b) == IF a >= b THEN a ELSE b
Min(a, b) == IF a <= b THEN a ELSE b
Abs(a) == IF a < 0 THEN -a ELSE a
Clamp(v, lo, hi) == Min(Max(v, lo), hi)

\* ------------------------------------------------------------------------
\* State
\* ------------------------------------------------------------------------
VARIABLES
  page,          \* markup / environment of this page load (fixed after Init)
  phase,         \* "parsing" | "domready" | "loaded"
  lottieState,   \* preloader animation: "none" | "playing" | "complete"
  hide,          \* hidePreloader closure: called, loadingOut, ended, listening
  readyRuns,     \* executions of onPreloaderFinishedAndModulesReady
  timers,        \* pending setTimeout callbacks, in registration order
  sinceReady,    \* ms since the first preloader completion (-1 before)
  bodyClasses,   \* classList of <body>
  introDone,     \* 'headerIntroDone' events dispatched
  styles,        \* inline styles / classes of the cascade's elements
  theme,         \* ThemeManager + STATE.darkMode + localStorage 'darkMode'
  logo,          \* LottieLogoManager
  isAutoScrolling,
  scrollY,
  scrollJobs,    \* programmatic scrolls in progress
  raf,           \* pending requestAnimationFrame callbacks
  sec,           \* per-section classes and animation counters
  sa,            \* SectionAnimator closure: sections, observer
  secObs,        \* IntersectionObservers created by SectionAnimator
  pills,         \* pill block
  pillObs,       \* IntersectionObservers created by PillAnimator
  thumbs,        \* STATE.animations.thumbnails / thumbnailPositions + styles
  thumbObs,      \* IntersectionObservers created by initializeThumbnail
  banner,        \* STATE.animations.bannerPosition, banner style, listeners
  layout,        \* STATE.layout + window.innerWidth
  menu,          \* MobileMenuManager
  session,       \* sessionStorage 'targetHash'
  carousel,      \* ImageCarouselManager closures and the slides' classes
  widgets,       \* RotatingWordsManager, ExperienceManager, CustomCursorManager
  hist           \* observation counters (no program state)

vars == <<page, phase, lottieState, hide, readyRuns, timers, sinceReady,
          bodyClasses, introDone, styles, theme, logo, isAutoScrolling,
          scrollY, scrollJobs, raf, sec, sa, secObs, pills, pillObs, thumbs,
          thumbObs, banner, layout, menu, session, carousel, widgets,
          hist>>


\* ------------------------------------------------------------------------
\* Timers: setTimeout registers [name, left, arg]; the callback that runs
\* next is the earliest-registered one among those whose delay has elapsed.
\* ------------------------------------------------------------------------
Timer(name, delay, arg) == [name |-> name, left |-> delay, arg |-> arg]

SetTimeout(tm, name, delay, arg) == Append(tm, Timer(name, delay, arg))

MinLeft(tm) ==
  CHOOSE m \in {tm[i].left : i \in DOMAIN tm} :
    \A j \in DOMAIN tm : tm[j].left >= m

DueIdx(tm) ==
  CHOOSE i \in DOMAIN tm :
    /\ tm[i].left = 0
    /\ \A j \in DOMAIN tm : j < i => tm[j].left # 0

RemoveAt(tm, i) == [j \in 1..(Len(tm) - 1) |-> IF j < i THEN tm[j] ELSE tm[j + 1]]

IsDue(name) ==
  /\ timers # <<>>
  /\ MinLeft(timers) = 0
  /\ timers[DueIdx(timers)].name = name

DueArg == timers[DueIdx(timers)].arg
Rest == RemoveAt(timers, DueIdx(timers))

Pending(name) == \E i \in DOMAIN timers : timers[i].name = name

\* ------------------------------------------------------------------------
\* Utilities
\* ------------------------------------------------------------------------
\* interpolate(start, end, progress) on per-mille values, progress = num/den
interpolate(startValue, endValue, num, den) ==
  (startValue * den + (endValue - startValue) * num) \div den

\* Geometry of the markup at viewport width w (mobile layout stacks the grid)
Rect(e, w) ==
  IF w <= MobileBreakpoint /\ e \in {"t2", "text", "exp", "pills", "footer"}
  THEN [top |-> Geo[e].top + 100, height |-> Geo[e].height]
  ELSE IF w <= MobileBreakpoint /\ e = "banner"
  THEN [top |-> Geo[e].top, height |-> Geo[e].height - 100]
  ELSE Geo[e]

\* getBoundingClientRect(): rect.top < innerHeight && rect.bottom > 0
InViewport(e, y, w) ==
  /\ Rect(e, w).top - y < ViewportH
  /\ Rect(e, w).top + Rect(e, w).height - y > 0

VisiblePx(e, y, w) ==
  Max(0, Min(Rect(e, w).top + Rect(e, w).height, y + ViewportH)
         - Max(Rect(e, w).top, y))

\* What an IntersectionObserver with threshold num/den reports for e
IOStatus(e, y, w, num, den) ==
  IF VisiblePx(e, y, w) > 0 /\ VisiblePx(e, y, w) * den >= Rect(e, w).height * num
  THEN "in" ELSE "out"

SeqOf(order, S) == SelectSeq(order, LAMBDA x : x \in S)

\* ------------------------------------------------------------------------
\* TextAnimator: when the intro animations all finish
\* ------------------------------------------------------------------------
RowStagger == 80
IntraStagger == 120
MovementDuration == 1200

\* largest start delay of any span: rowIndex * rowStagger, plus
\* spanIndex * intraStagger on the second row
MaxSpanDelay(rows) ==
  LET d(r) == (r - 1) * RowStagger
              + (IF r = 2 THEN (rows[r] - 1) * IntraStagger ELSE 0)
      F[r \in 0..Len(rows)] ==
        IF r = 0 THEN 0 ELSE Max(F[r - 1], d(r))
  IN F[Len(rows)]

HomeIntroMs(rows, hasSep, hasSub, sepDelay) ==
  Max(MaxSpanDelay(rows) + MovementDuration,
      Max(IF hasSep THEN sepDelay + 600 ELSE 0,
          IF hasSub THEN 300 + 800 ELSE 0))

ProjectIntroMs(hasSub) == Max(800, IF hasSub THEN 400 + 600 ELSE 0)

\* ------------------------------------------------------------------------
\* ThemeManager
\* ------------------------------------------------------------------------
\* the OS preference consulted whenever the stored value is not 'enabled'
ResolveDark_PreferenceOverStored(savedDarkMode, prefersDarkMode) ==
  savedDarkMode = "enabled" \/ prefersDarkMode

ResolveDark(savedDarkMode, prefersDarkMode) ==
  \/ savedDarkMode = "enabled"
  \/ (savedDarkMode = "none" /\ prefersDarkMode)

ThemedSrc(old, present, dark) ==
  IF present THEN (IF dark THEN "dark" ELSE "light") ELSE old

\* lottie.loadAnimation is reached with the library undefined
LogoLoadThrows == ~page.lottieLib

loadAnimationByTheme(lg, htmlDark) ==
  [lg EXCEPT !.gen = @ + 1, !.dark = htmlDark, !.playing = FALSE]

\* ------------------------------------------------------------------------
\* ProjectThumbnails
\* ------------------------------------------------------------------------
storePosition(t, w) == Rect(t, w)

\* updateThumbnailsOnScroll's style with the effect starting at the top edge
ThumbStyleAt_NoStartOffset(pos, y) ==
  IF pos.top < y + ViewportH /\ pos.top + pos.height > y /\ pos.top - y < 0
  THEN LET past == Clamp(Abs(pos.top - y), 0, ThumbEffectRange)
       IN [op |-> interpolate(1000, 800, past, ThumbEffectRange),
           sc |-> interpolate(1000, 900, past, ThumbEffectRange)]
  ELSE NoStyle

ThumbStyleAt(pos, y) ==
  IF pos.top < y + ViewportH /\ pos.top + pos.height > y /\ pos.top - y < 0
  THEN LET past == Clamp(Abs(pos.top - y) - ThumbStartOffset, 0, ThumbEffectRange)
       IN [op |-> interpolate(1000, 800, past, ThumbEffectRange),
           sc |-> interpolate(1000, 900, past, ThumbEffectRange)]
  ELSE NoStyle

InList(list, x) == \E i \in DOMAIN list : list[i] = x

updateThumbnailsOnScroll(th, auto, y, w) ==
  LET used(t) == IF th.pos[t] = NoPos THEN storePosition(t, w) ELSE th.pos[t]
      live(t) == InList(th.list, t) /\ th.visible[t]
  IN IF auto THEN th ELSE
     [th EXCEPT
        !.pos   = [t \in Thumbs |-> IF live(t) THEN used(t) ELSE th.pos[t]],
        !.style = [t \in Thumbs |->
                     IF ~InList(th.list, t) THEN th.style[t]
                     ELSE IF th.visible[t] THEN ThumbStyleAt(used(t), y)
                     ELSE NoStyle]]

refreshThumbnails(th, y, w) ==
  LET hit(t) == InList(th.list, t) /\ ~th.visible[t] /\ InViewport(t, y, w)
  IN [th EXCEPT
        !.visible = [t \in Thumbs |-> th.visible[t] \/ hit(t)],
        !.pos     = [t \in Thumbs |-> IF hit(t) THEN storePosition(t, w)
                                      ELSE th.pos[t]]]

\* ------------------------------------------------------------------------
\* BannerManager
\* ------------------------------------------------------------------------
storeBannerPosition(bn, w) ==
  IF page.bannerEl THEN [bn EXCEPT !.pos = Rect("banner", w)] ELSE bn

BannerStyleAt(pos, y, w) ==
  LET distanceFromTop == pos.top - y
      effectRange == IF w > MobileBreakpoint THEN BannerRangeDesktop
                     ELSE BannerRangeMobile
      scrolled == Min(Abs(distanceFromTop), effectRange)
  IN IF distanceFromTop < 0
     THEN [op |-> interpolate(1000, 0, scrolled, effectRange),
           sc |-> interpolate(1000, 900, scrolled, effectRange)]
     ELSE [op |-> 1000, sc |-> 1000]

updateBannerOnScroll(bn, y, w) ==
  IF ~page.bannerEl THEN bn
  ELSE LET b1 == IF bn.pos = NoPos THEN storeBannerPosition(bn, w) ELSE bn
       IN [b1 EXCEPT !.style = BannerStyleAt(b1.pos, y, w)]

\* ------------------------------------------------------------------------
\* SectionAnimator.  A world W = [sec, tm, carat] carries what the reveal
\* functions touch: section classes/animations, timers, the carat class.
\* Only the elements whose state is tracked are written; timers that style
\* untracked sub-elements (line separators, paragraphs) leave W unchanged.
\* ------------------------------------------------------------------------
TextChildFinishMs == 900
PillFinishMs == 700

ProjectPage == "project-page" \in bodyClasses

StartAndUnmark(W, s) ==
  [W EXCEPT !.sec[s].starts = @ + 1,
            !.sec[s].hiddenInit = FALSE,
            !.sec[s].removals = @ + 1]

simpleReveal(W, s) ==
  IF ~W.sec[s].hiddenInit THEN W ELSE StartAndUnmark(W, s)

projectPageDescriptionReveal(W, s) ==
  IF ~W.sec[s].hiddenInit THEN W ELSE StartAndUnmark(W, s)

animateGenericSection(W, s) ==
  IF ~W.sec[s].hiddenInit THEN W ELSE StartAndUnmark(W, s)

animateDescriptionSection(W, s) ==
  IF ~W.sec[s].hiddenInit THEN W
  ELSE [animateGenericSection(W, s) EXCEPT !.carat = FALSE]

\* children (.sectionBody, .quoteSection) animate while they still carry
\* hidden-init, which their onfinish removes
animateTextSection(W, s) ==
  LET W1 == animateGenericSection(W, s)
  IN IF ~page.textContainer \/ ~W1.sec[s].childHidden THEN W1
     ELSE [W1 EXCEPT !.sec[s].childStarts = @ + 1,
                     !.tm = SetTimeout(@, "textChildFinish", TextChildFinishMs, s)]

\* title and items are animated without any marker check
animateExperienceSection(W, s) ==
  LET W1 == animateGenericSection(W, s)
  IN [W1 EXCEPT !.sec[s].childStarts = @ + 1]

triggerAnimation(W, s) ==
  CASE s = "desc" -> animateDescriptionSection(W, s)
    [] s = "exp"  -> animateExperienceSection(W, s)
    [] s = "text" -> animateTextSection(W, s)
    [] OTHER      -> animateGenericSection(W, s)

\* the reveal chosen by onIntersect and by refresh
RevealSection(W, s, project) ==
  IF project
  THEN IF s = "desc" THEN projectPageDescriptionReveal(W, s)
       ELSE simpleReveal(W, s)
  ELSE triggerAnimation(W, s)

\* sections that refresh() reveals: still marked hidden-init and in view
RefreshHits(secs, list, y, w) ==
  {s \in Sections : InList(list, s) /\ secs[s].hiddenInit /\ InViewport(s, y, w)}

refresh(W, s_a, y, w, project) ==
  LET hits == RefreshHits(W.sec, s_a.list, y, w)
      F[i \in 0..Len(s_a.list)] ==
        IF i = 0 THEN W
        ELSE IF s_a.list[i] \in hits
             THEN RevealSection(F[i - 1], s_a.list[i], project)
             ELSE F[i - 1]
  IN IF ~s_a.defined THEN W ELSE F[Len(s_a.list)]

\* observer && observer.unobserve(section) for every section refresh revealed
RefreshUnobserve(obs, s_a, secs, y, w) ==
  IF ~s_a.defined \/ s_a.observer = 0 THEN obs
  ELSE [obs EXCEPT ![s_a.observer].targets =
          @ \ RefreshHits(secs, s_a.list, y, w)]

NewObserver(targets) ==
  [targets |-> targets, rep |-> [s \in Sections |-> "none"]]

\* SectionAnimator.initialize(): W' plus the new closure and observers
SectionInitProject(W, s_a, obs, y, w) ==
  LET list == SeqOf(SectionOrder, page.sections)
      marked == [s \in Sections |->
                   IF s \in page.sections
                   THEN [W.sec[s] EXCEPT !.hiddenInit = TRUE] ELSE W.sec[s]]
      visibleOnLoad == SelectSeq(list, LAMBDA s : Rect(s, w).top - y < ViewportH)
      belowFold == {s \in page.sections : ~(Rect(s, w).top - y < ViewportH)}
      T[i \in 0..Len(visibleOnLoad)] ==
        IF i = 0 THEN W.tm
        ELSE SetTimeout(T[i - 1], "secReveal", 200 + (i - 1) * 150, visibleOnLoad[i])
  IN [W  |-> [W EXCEPT !.sec = marked, !.tm = T[Len(visibleOnLoad)]],
      sa |-> [defined |-> TRUE, list |-> list,
              observer |-> IF belowFold # {} THEN Len(obs) + 1 ELSE s_a.observer],
      obs |-> IF belowFold # {} THEN Append(obs, NewObserver(belowFold)) ELSE obs]

SectionInitHome(W, s_a, obs) ==
  LET list == SeqOf(SectionOrder, page.sections)
      marked == [s \in Sections |->
                   IF s \notin page.sections THEN W.sec[s]
                   ELSE IF s = "text" THEN [W.sec[s] EXCEPT !.childHidden = TRUE]
                   ELSE IF s = "desc" THEN W.sec[s]
                   ELSE IF s # "exp" THEN [W.sec[s] EXCEPT !.hiddenInit = TRUE]
                   ELSE W.sec[s]]
  IN [W  |-> [W EXCEPT !.sec = marked],
      sa |-> [defined |-> TRUE, list |-> list, observer |-> Len(obs) + 1],
      obs |-> Append(obs, NewObserver(page.sections \ {"desc"}))]

SectionInitialize(W, s_a, obs, y, w, project) ==
  IF project THEN SectionInitProject(W, s_a, obs, y, w)
  ELSE SectionInitHome(W, s_a, obs)

\* ------------------------------------------------------------------------
\* ImageCarouselManager (one .image-carousel of page.slides slides; slides
\* and captions are numbered from 0)
\* ------------------------------------------------------------------------
SlideDuration == 6000

\* showSlide wrapping one index too late
showSlide_LateWrap(car, k, index) ==
  LET n == page.slides
      cur == IF index > n THEN 0 ELSE IF index < 0 THEN n - 1 ELSE index
  IN [car EXCEPT !.closures[k].currentIndex = cur,
                 !.active = {cur},
                 !.captionActive = IF page.captions = n THEN {cur} ELSE @,
                 !.wrapped = IF index >= n THEN @ \cup {"first"}
                             ELSE IF index < 0 THEN @ \cup {"last"} ELSE @]

\* showSlide(index) of closure k; `wrapped` records which ends an index has
\* wrapped to (history only, never read by the carousel)
showSlide(car, k, index) ==
  LET n == page.slides
      cur == IF index >= n THEN 0 ELSE IF index < 0 THEN n - 1 ELSE index
  IN [car EXCEPT !.closures[k].currentIndex = cur,
                 !.active = {cur},
                 !.captionActive = IF page.captions = n THEN {cur} ELSE @,
                 !.wrapped = IF index >= n THEN @ \cup {"first"}
                             ELSE IF index < 0 THEN @ \cup {"last"} ELSE @]

\* clearInterval(intervalId) of closure k
clearInterval(tm, k) ==
  SelectSeq(tm, LAMBDA t : ~(t.name = "carouselTick" /\ t.arg = k))

startInterval(tm, k) == SetTimeout(tm, "carouselTick", SlideDuration, k)

\* initializeCarousel returning early only for an empty carousel
initializeCarousel_SingleSlideRuns(car, tm) ==
  IF ~page.carousel THEN [car |-> car, tm |-> tm]
  ELSE IF page.slides < 1
  THEN [car |-> [car EXCEPT !.navHidden = @ \/ page.carouselNav], tm |-> tm]
  ELSE LET k == Len(car.closures) + 1
       IN [car |-> [car EXCEPT !.closures =
                      Append(@, [currentIndex |-> 0, nav |-> page.carouselNav])],
           tm |-> startInterval(tm, k)]

\* initializeCarousel for the page's carousel, if any
initializeCarousel(car, tm) ==
  IF ~page.carousel THEN [car |-> car, tm |-> tm]
  ELSE IF page.slides <= 1
  THEN [car |-> [car EXCEPT !.navHidden = @ \/ page.carouselNav], tm |-> tm]
  ELSE LET k == Len(car.closures) + 1
       IN [car |-> [car EXCEPT !.closures =
                      Append(@, [currentIndex |-> 0, nav |-> page.carouselNav])],
           tm |-> startInterval(tm, k)]

\* ------------------------------------------------------------------------
\* Initial state: the document as parsed, before DOMContentLoaded
\* ------------------------------------------------------------------------
BasePage ==
  [ preloader |-> TRUE, lottieContainer |-> FALSE, lottieLib |-> TRUE,
    logoContainer |-> TRUE, icon |-> TRUE,
    projectPage |-> FALSE, isHome |-> TRUE,
    intro |-> [present |-> TRUE, rows |-> <<1, 2>>],
    subHeader |-> TRUE, mobileSep |-> TRUE, avatar |-> TRUE,
    bannerImg |-> TRUE, bannerEl |-> TRUE, carat |-> TRUE,
    sections |-> Sections, textContainer |-> TRUE,
    thumbs |-> Thumbs, pills |-> TRUE, socialIcons |-> 2,
    menuEls |-> TRUE, menuLinks |-> 1, pageContent |-> TRUE,
    footer |-> TRUE,
    rotatingSlot |-> FALSE, reducedMotion |-> FALSE,
    prefersDark |-> FALSE, locationHash |-> "", innerWidth |-> 1200,
    carousel |-> FALSE, slides |-> 0, captions |-> 0, carouselNav |-> TRUE,
    experienceItems |-> 0, heroMarkup |-> FALSE, cursorEl |-> TRUE ]

\* CustomCursorManager before initialize: module-level variables, the
\* #custom-cursor element's inline style and classes, and the pointer itself
\* (where it is and which hoverable elements it is inside)
NoCursor ==
  [ installed |-> "no", activeTextHoverCount |-> 0, classes |-> {},
    opacity |-> "", pos |-> 0, htmlActive |-> FALSE, onEnd |-> 0,
    pointer |-> 0, over |-> {} ]

\* RotatingWordsManager before initialize: module-level variables
NoWords == [built |-> 0, COUNT |-> 0, currentWordIndex |-> 0,
            isAnimating |-> FALSE]

\* accordion items of the markup: no ARIA state yet, body collapsed by the
\* stylesheet
MaxItems == 2
Items == 1..MaxItems
MarkupItem == [ariaExpanded |-> "none", ariaHidden |-> "none",
               isExpanded |-> FALSE, maxHeight |-> "0",
               clickListeners |-> 0, keyListeners |-> 0]

\* the state of a freshly parsed document; localStorage, sessionStorage and
\* the count of loads come from outside it
FreshDocument(pg, stored, storedHash, loads) ==
  [ page |-> pg,
    phase |-> "parsing",
    lottieState |-> "none",
    hide |-> [called |-> 0, loadingOut |-> FALSE, ended |-> FALSE,
              listening |-> FALSE, fadeLive |-> FALSE],
    readyRuns |-> 0,
    timers |-> <<>>,
    sinceReady |-> -1,
    bodyClasses |-> IF pg.projectPage THEN {"project-page"} ELSE {},
    introDone |-> 0,
    styles |-> [pageShown |-> TRUE, footerShown |-> FALSE,
                preloaderHidden |-> FALSE, avatarShown |-> FALSE,
                sepShown |-> FALSE, descShown |-> FALSE, social |-> 0,
                bannerImgHidden |-> pg.bannerImg, caratVisible |-> FALSE,
                caratListeners |-> 0],
    theme |-> [stored |-> stored, iconEl |-> FALSE, listener |-> FALSE,
               htmlDark |-> FALSE, active |-> FALSE, transitioning |-> FALSE,
               isMoon |-> FALSE, bannerSrc |-> "markup", logoSrc |-> "markup"],
    logo |-> [gen |-> 0, dark |-> FALSE, playing |-> FALSE, visible |-> FALSE,
              hoverListeners |-> 0],
    isAutoScrolling |-> FALSE,
    scrollY |-> 0,
    scrollJobs |-> [native |-> FALSE],
    raf |-> {},
    sec |-> [s \in Sections |->
               [hiddenInit |-> (s = "desc" /\ s \in pg.sections /\ ~pg.projectPage),
                starts |-> 0, removals |-> 0,
                childHidden |-> FALSE, childStarts |-> 0]],
    sa |-> [defined |-> FALSE, list |-> <<>>, observer |-> 0],
    secObs |-> <<>>,
    pills |-> [hidden |-> pg.pills, starts |-> 0],
    pillObs |-> <<>>,
    thumbs |-> [list |-> <<>>,
                visible |-> [t \in Thumbs |-> FALSE],
                hero |-> [t \in Thumbs |-> pg.heroMarkup /\ t = ThumbOrder[1]],
                pos |-> [t \in Thumbs |-> NoPos],
                style |-> [t \in Thumbs |-> NoStyle],
                listeners |-> 0],
    thumbObs |-> <<>>,
    banner |-> [pos |-> NoPos, style |-> NoStyle,
                scrollListeners |-> 0, resizeListeners |-> 0],
    layout |-> [current |-> IF pg.innerWidth <= MobileBreakpoint
                            THEN "mobile" ELSE "desktop",
                innerWidth |-> pg.innerWidth, resizeListeners |-> 0,
                bannerHeightLocked |-> FALSE],
    menu |-> [inits |-> 0, active |-> FALSE, ariaHidden |-> TRUE,
              expanded |-> FALSE, isActive |-> FALSE, navOnTop |-> FALSE,
              focus |-> "body", prev |-> "none"],
    session |-> [targetHash |-> storedHash, linkHandlers |-> FALSE,
                 footerHandlers |-> 0],
    carousel |-> [closures |-> <<>>,
                  active |-> IF pg.carousel /\ pg.slides > 0 THEN {0} ELSE {},
                  captionActive |-> IF pg.carousel /\ pg.captions > 0
                                    THEN {0} ELSE {},
                  navHidden |-> FALSE, wrapped |-> {}],
    widgets |-> [words |-> NoWords,
                accordion |-> [i \in Items |-> MarkupItem],
                cursor |-> NoCursor],
    hist |-> [loads |-> loads, reloaded |-> FALSE,
              fragmentAtLoad |-> storedHash, tabs |-> 0, toggles |-> 0,
              introCalls |-> 0, cancels |-> 0, menuKeys |-> 0,
              shift |-> FALSE, errors |-> 0,
              escapes |-> 0,
              openScrolls |-> 0, resizes |-> 0,
              transitionEnds |-> 0, events |-> 0, toggleRequests |-> 0,
              darkWrites |-> 0, resets |-> 0] ]

InitWith(pg, stored, storedHash) ==
  LET F == FreshDocument(pg, stored, storedHash, 0)
  IN /\ page = F.page
     /\ phase = F.phase
     /\ lottieState = F.lottieState
     /\ hide = F.hide
     /\ readyRuns = F.readyRuns
     /\ timers = F.timers
     /\ sinceReady = F.sinceReady
     /\ bodyClasses = F.bodyClasses
     /\ introDone = F.introDone
     /\ styles = F.styles
     /\ theme = F.theme
     /\ logo = F.logo
     /\ isAutoScrolling = F.isAutoScrolling
     /\ scrollY = F.scrollY
     /\ scrollJobs = F.scrollJobs
     /\ raf = F.raf
     /\ sec = F.sec
     /\ sa = F.sa
     /\ secObs = F.secObs
     /\ pills = F.pills
     /\ pillObs = F.pillObs
     /\ thumbs = F.thumbs
     /\ thumbObs = F.thumbObs
     /\ banner = F.banner
     /\ layout = F.layout
     /\ menu = F.menu
     /\ session = F.session
     /\ carousel = F.carousel
     /\ widgets = F.widgets
     /\ hist = F.hist

\* the browser replaces the document by a freshly parsed one
LoadDocument(F) ==
  /\ page' = F.page
  /\ phase' = F.phase
  /\ lottieState' = F.lottieState
  /\ hide' = F.hide
  /\ readyRuns' = F.readyRuns
  /\ timers' = F.timers
  /\ sinceReady' = F.sinceReady
  /\ bodyClasses' = F.bodyClasses
  /\ introDone' = F.introDone
  /\ styles' = F.styles
  /\ theme' = F.theme
  /\ logo' = F.logo
  /\ isAutoScrolling' = F.isAutoScrolling
  /\ scrollY' = F.scrollY
  /\ scrollJobs' = F.scrollJobs
  /\ raf' = F.raf
  /\ sec' = F.sec
  /\ sa' = F.sa
  /\ secObs' = F.secObs
  /\ pills' = F.pills
  /\ pillObs' = F.pillObs
  /\ thumbs' = F.thumbs
  /\ thumbObs' = F.thumbObs
  /\ banner' = F.banner
  /\ layout' = F.layout
  /\ menu' = F.menu
  /\ session' = F.session
  /\ carousel' = F.carousel
  /\ widgets' = F.widgets
  /\ hist' = F.hist

\* ------------------------------------------------------------------------
\* DOMContentLoaded: ThemeManager.applyInitialThemeAndIcon
\* ------------------------------------------------------------------------
applyInitialThemeAndIcon_PersistsPreference(th) ==
  IF ~page.icon THEN th
  ELSE LET dark == ResolveDark(th.stored, page.prefersDark)
       IN [th EXCEPT !.iconEl = TRUE, !.htmlDark = dark, !.active = dark,
                     !.isMoon = dark,
                     !.stored = IF dark THEN "enabled" ELSE "disabled",
                     !.bannerSrc = ThemedSrc(@, page.bannerImg /\ page.isHome, dark),
                     !.logoSrc = ThemedSrc(@, TRUE, dark)]

applyInitialThemeAndIcon(th) ==
  IF ~page.icon THEN th
  ELSE LET dark == ResolveDark(th.stored, page.prefersDark)
       IN [th EXCEPT !.iconEl = TRUE, !.htmlDark = dark, !.active = dark,
                     !.isMoon = dark,
                     !.bannerSrc = ThemedSrc(@, page.bannerImg /\ page.isHome, dark),
                     !.logoSrc = ThemedSrc(@, TRUE, dark)]

DOMContentLoaded ==
  /\ phase = "parsing"
  /\ phase' = "domready"
  /\ theme' = applyInitialThemeAndIcon(theme)
  /\ bodyClasses' =
       LET b == bodyClasses \cup {"preloading", "projects-locked"}
       IN IF ~page.icon THEN b
          ELSE IF ResolveDark(theme.stored, page.prefersDark)
               THEN b \cup {"dark-mode"} ELSE b \ {"dark-mode"}
  /\ UNCHANGED <<page, lottieState, hide, readyRuns, timers, sinceReady,
                 introDone, styles, logo, isAutoScrolling, scrollY,
                 scrollJobs, raf, sec, sa, secObs, pills, pillObs, thumbs,
                 thumbObs, banner, layout, menu, session, hist, carousel,
                 widgets>>

\* ------------------------------------------------------------------------
\* onPreloaderFinishedAndModulesReady
\* ------------------------------------------------------------------------
setupEventListeners(th) ==
  LET el == th.iconEl \/ page.icon
  IN [th EXCEPT !.iconEl = el, !.listener = @ \/ el]

\* LayoutManager.handleResize
handleResizeLayout(lay) ==
  LET newLayout == IF lay.innerWidth <= MobileBreakpoint THEN "mobile" ELSE "desktop"
  IN IF newLayout # lay.current
     THEN [lay EXCEPT !.current = newLayout,
                      !.bannerHeightLocked =
                         IF newLayout = "desktop" THEN FALSE ELSE @]
     ELSE lay

handleResizeThumbs(th, lay, y) ==
  LET newLayout == IF lay.innerWidth <= MobileBreakpoint THEN "mobile" ELSE "desktop"
      t1 == IF newLayout # lay.current
            THEN refreshThumbnails(th, y, lay.innerWidth) ELSE th
  IN [t1 EXCEPT !.pos = [t \in Thumbs |->
                           IF InList(t1.list, t) /\ t1.visible[t]
                           THEN storePosition(t, lay.innerWidth) ELSE NoPos]]

BannerInitialize(bn, w) ==
  [storeBannerPosition(bn, w) EXCEPT
     !.resizeListeners = @ + 1,
     !.scrollListeners = IF page.isHome THEN @ + 1 ELSE @]

\* listeners that a scroll event reaches: each requests an animation frame
ScrollRequests(bn, th) ==
  (IF bn.scrollListeners > 0 THEN {"banner"} ELSE {})
  \cup (IF th.listeners > 0 THEN {"thumbs"} ELSE {})

HashTargets == Sections \cup {"pills"}
TargetExists(h) ==
  \/ h \in page.sections
  \/ (h = "pills" /\ page.pills)

\* the cascade with the thumbnails chained behind the description
CascadeTimers_ThumbnailsAfterDescription(tm) ==
  LET a == SetTimeout(tm, "headerText", DelayHeaderText, "")
      b == SetTimeout(a, "rotatingWords", DelayRotatingWords, "")
      c == SetTimeout(b, "avatar", DelayAvatar, "")
      d == SetTimeout(c, "socialIcons", DelaySocialIcons, "")
      e == SetTimeout(d, "mobileSeparator", DelayMobileSeparator, "")
      f == SetTimeout(e, "description", DelayDescription, "")
      g == SetTimeout(f, "banner", DelayBanner, "")
      h == SetTimeout(g, "thumbnails", DelayDescription + DelayThumbnails, "")
  IN SetTimeout(h, "caratIndicator", DelayCaratIndicator, "")

\* the timers of onPreloaderFinishedAndModulesReady, in registration order
CascadeTimers(tm) ==
  LET a == SetTimeout(tm, "headerText", DelayHeaderText, "")
      b == SetTimeout(a, "rotatingWords", DelayRotatingWords, "")
      c == SetTimeout(b, "avatar", DelayAvatar, "")
      d == SetTimeout(c, "socialIcons", DelaySocialIcons, "")
      e == SetTimeout(d, "mobileSeparator", DelayMobileSeparator, "")
      f == SetTimeout(e, "description", DelayDescription, "")
      g == SetTimeout(f, "banner", DelayBanner, "")
      h == SetTimeout(g, "thumbnails", DelayThumbnails, "")
  IN SetTimeout(h, "caratIndicator", DelayCaratIndicator, "")

handleInitialHashScroll(tm, ses) ==
  LET hash == IF ses.targetHash # "" THEN ses.targetHash ELSE page.locationHash
  IN IF hash # "" /\ TargetExists(hash)
     THEN SetTimeout(tm, "hashScroll", HashScrollDelay, hash) ELSE tm

ReadyEffects(h, tm, ses) ==
  LET logoOn == page.logoContainer /\ page.lottieLib
      tm1 == IF logoOn THEN SetTimeout(tm, "logoVisible", LogoVisibleDelay, "") ELSE tm
      ci == initializeCarousel(carousel, tm1)
      tm2 == handleInitialHashScroll(ci.tm, ses)
  IN
  /\ hide' = h
  /\ readyRuns' = readyRuns + 1
  /\ sinceReady' = IF sinceReady < 0 THEN 0 ELSE sinceReady
  /\ bodyClasses' = (bodyClasses \cup {"app-ready"}) \ {"preloading"}
  /\ styles' = [styles EXCEPT
                  !.preloaderHidden = @ \/ page.preloader,
                  !.pageShown = @ \/ page.pageContent,
                  !.footerShown = @ \/ page.footer]
  /\ theme' = setupEventListeners(theme)
  /\ layout' = [handleResizeLayout(layout) EXCEPT !.resizeListeners = @ + 1]
  /\ thumbs' = handleResizeThumbs(thumbs, layout, scrollY)
  /\ scrollY' = 0
  /\ raf' = IF scrollY # 0 THEN raf \cup ScrollRequests(banner, thumbs) ELSE raf
  /\ banner' = BannerInitialize(banner, layout.innerWidth)
  /\ menu' = IF page.menuEls THEN [menu EXCEPT !.inits = @ + 1] ELSE menu
  /\ logo' = IF logoOn
             THEN [loadAnimationByTheme(logo, theme.htmlDark)
                     EXCEPT !.hoverListeners = @ + 1]
             ELSE logo
  /\ session' = [ses EXCEPT !.targetHash = "", !.footerHandlers = @ + 1]
  /\ carousel' = ci.car
  /\ timers' = CascadeTimers(tm2)
  /\ UNCHANGED <<page, introDone, isAutoScrolling, scrollJobs, sec, sa,
                 secObs, pills, pillObs, thumbObs, widgets>>

\* ------------------------------------------------------------------------
\* window 'load' handler and hidePreloader
\* ------------------------------------------------------------------------
hidePreloader(h) ==
  [h EXCEPT !.called = @ + 1, !.loadingOut = TRUE, !.ended = FALSE,
            !.listening = TRUE, !.fadeLive = TRUE]

WindowLoad ==
  /\ phase = "domready"
  /\ phase' = "loaded"
  /\ IF page.preloader
     THEN /\ styles' = [styles EXCEPT !.pageShown = IF page.pageContent THEN FALSE ELSE @]
          /\ session' = [session EXCEPT !.linkHandlers = TRUE]
          /\ IF page.lottieContainer /\ page.lottieLib
             THEN /\ lottieState' = "playing"
                  /\ timers' = timers
             ELSE /\ lottieState' = lottieState
                  /\ timers' = SetTimeout(timers, "hidePreloader", NoLottieDelay, "")
          /\ UNCHANGED <<page, hide, readyRuns, sinceReady, bodyClasses,
                         introDone, theme, logo, isAutoScrolling, scrollY,
                         scrollJobs, raf, sec, sa, secObs, pills, pillObs,
                         thumbs, thumbObs, banner, layout, menu, hist, carousel,
                         widgets>>
     ELSE /\ ReadyEffects(hide, timers, [session EXCEPT !.linkHandlers = TRUE])
          /\ UNCHANGED <<lottieState, hist>>

\* the preloader animation's 'complete' event (it may never come)
LottieComplete ==
  /\ lottieState = "playing"
  /\ lottieState' = "complete"
  /\ hide' = hidePreloader(hide)
  /\ timers' = SetTimeout(timers, "preloaderFallback", PreloaderFadeFallback, "")
  /\ UNCHANGED <<page, phase, readyRuns, sinceReady, bodyClasses, introDone,
                 styles, theme, logo, isAutoScrolling, scrollY, scrollJobs,
                 raf, sec, sa, secObs, pills, pillObs, thumbs, thumbObs,
                 banner, layout, menu, session, hist, carousel, widgets>>

TimerHidePreloader ==
  /\ IsDue("hidePreloader")
  /\ hide' = hidePreloader(hide)
  /\ timers' = SetTimeout(Rest, "preloaderFallback", PreloaderFadeFallback, "")
  /\ UNCHANGED <<page, phase, lottieState, readyRuns, sinceReady, bodyClasses,
                 introDone, styles, theme, logo, isAutoScrolling, scrollY,
                 scrollJobs, raf, sec, sa, secObs, pills, pillObs, thumbs,
                 thumbObs, banner, layout, menu, session, hist, carousel,
                 widgets>>

\* onEnd(e): does this event start the page?
OnEndAccepts(h, propertyName) == propertyName = "opacity" /\ ~h.ended

\* fallback timer: does it start the page?
FallbackAccepts(h) == ~h.ended

\* a 'transitionend' reaching the preloader while onEnd is attached; once the
\* preloader is display:none its fade can only end within the current frame
TransitionEnd(propertyName) ==
  /\ hide.listening /\ hide.fadeLive
  /\ hist.transitionEnds < MaxTransitionEnds
  /\ hist' = [hist EXCEPT !.transitionEnds = @ + 1]
  /\ IF OnEndAccepts(hide, propertyName)
     THEN /\ ReadyEffects([hide EXCEPT !.ended = TRUE, !.listening = FALSE], timers, session)
          /\ UNCHANGED <<phase, lottieState>>
     ELSE UNCHANGED <<page, phase, lottieState, hide, readyRuns, timers,
                      sinceReady, bodyClasses, introDone, styles, theme, logo,
                      isAutoScrolling, scrollY, scrollJobs, raf, sec, sa,
                      secObs, pills, pillObs, thumbs, thumbObs, banner,
                      layout, menu, session, carousel, widgets>>

TimerPreloaderFallback ==
  /\ IsDue("preloaderFallback")
  /\ IF FallbackAccepts(hide)
     THEN /\ ReadyEffects(hide, Rest, session)
          /\ UNCHANGED <<phase, lottieState, hist>>
     ELSE /\ timers' = Rest
          /\ UNCHANGED <<page, phase, lottieState, hide, readyRuns,
                         sinceReady, bodyClasses, introDone, styles, theme,
                         logo, isAutoScrolling, scrollY, scrollJobs, raf, sec,
                         sa, secObs, pills, pillObs, thumbs, thumbObs, banner,
                         layout, menu, session, hist, carousel, widgets>>

\* ------------------------------------------------------------------------
\* The reveal cascade: one timer per ANIMATION_DELAYS phase
\* ------------------------------------------------------------------------
\* TextAnimator.animateIntroText: events dispatched now, and timers after
\* animateIntroText returning on an empty .introText without the dispatch
animateIntroText_SilentOnNoSpans(tm, mobileSeparatorDelay) ==
  IF ~page.intro.present THEN [done |-> 1, tm |-> tm]
  ELSE IF ProjectPage
  THEN [done |-> 0,
        tm |-> SetTimeout(tm, "introFinished", ProjectIntroMs(page.subHeader),
                          "caught")]
  ELSE IF page.intro.rows = <<>> THEN [done |-> 0, tm |-> tm]
  ELSE [done |-> 0,
        tm |-> SetTimeout(tm, "introFinished",
                 HomeIntroMs(page.intro.rows, page.mobileSep, page.subHeader,
                             mobileSeparatorDelay), "caught")]

\* animateIntroText without the .catch on the animations' finished promises
animateIntroText_NoCatch(tm, mobileSeparatorDelay) ==
  IF ~page.intro.present THEN [done |-> 1, tm |-> tm]
  ELSE IF ProjectPage
  THEN [done |-> 0,
        tm |-> SetTimeout(tm, "introFinished", ProjectIntroMs(page.subHeader),
                          "")]
  ELSE IF page.intro.rows = <<>> THEN [done |-> 1, tm |-> tm]
  ELSE [done |-> 0,
        tm |-> SetTimeout(tm, "introFinished",
                 HomeIntroMs(page.intro.rows, page.mobileSep, page.subHeader,
                             mobileSeparatorDelay), "")]

\* the timer "introFinished" stands for Promise.all over the animations'
\* finished promises; its arg tells whether their rejections are caught
animateIntroText(tm, mobileSeparatorDelay) ==
  IF ~page.intro.present THEN [done |-> 1, tm |-> tm]
  ELSE IF ProjectPage
  THEN [done |-> 0,
        tm |-> SetTimeout(tm, "introFinished", ProjectIntroMs(page.subHeader),
                          "caught")]
  ELSE IF page.intro.rows = <<>> THEN [done |-> 1, tm |-> tm]
  ELSE [done |-> 0,
        tm |-> SetTimeout(tm, "introFinished",
                 HomeIntroMs(page.intro.rows, page.mobileSep, page.subHeader,
                             mobileSeparatorDelay), "caught")]

World(tm) == [sec |-> sec, tm |-> tm, carat |-> styles.caratVisible]

TimerHeaderText ==
  /\ IsDue("headerText")
  /\ LET ti == animateIntroText(Rest, DelayMobileSeparator)
         si == SectionInitialize(World(ti.tm), sa, secObs, scrollY,
                                 layout.innerWidth, ProjectPage)
     IN /\ introDone' = introDone + ti.done
        /\ sec' = si.W.sec
        /\ timers' = si.W.tm
        /\ sa' = si.sa
        /\ secObs' = si.obs
  /\ hist' = [hist EXCEPT !.introCalls = @ + 1]
  /\ UNCHANGED <<page, phase, lottieState, hide, readyRuns, sinceReady,
                 bodyClasses, styles, theme, logo, isAutoScrolling, scrollY,
                 scrollJobs, raf, pills, pillObs, thumbs, thumbObs, banner,
                 layout, menu, session, carousel, widgets>>

MaxCancels == 1

\* the browser cancels the animations of one animateIntroText call that are
\* still running: their finished promises reject at once. Caught, the
\* rejections settle Promise.all now; uncaught, they reject it and its .then
\* callback never runs
CancelIntroAnimation ==
  /\ hist.cancels < MaxCancels
  /\ \E i \in DOMAIN timers :
       /\ timers[i].name = "introFinished"
       /\ timers[i].left > 0
       /\ timers' = IF timers[i].arg = "caught"
                    THEN [timers EXCEPT ![i].left = 0]
                    ELSE RemoveAt(timers, i)
  /\ hist' = [hist EXCEPT !.cancels = @ + 1]
  /\ UNCHANGED <<page, phase, lottieState, hide, readyRuns, sinceReady,
                 bodyClasses, introDone, styles, theme, logo, isAutoScrolling,
                 scrollY, scrollJobs, raf, sec, sa, secObs, pills, pillObs,
                 thumbs, thumbObs, banner, layout, menu, session, carousel,
                 widgets>>

TimerIntroFinished ==
  /\ IsDue("introFinished")
  /\ introDone' = introDone + 1
  /\ timers' = Rest
  /\ UNCHANGED <<page, phase, lottieState, hide, readyRuns, sinceReady,
                 bodyClasses, styles, theme, logo, isAutoScrolling, scrollY,
                 scrollJobs, raf, sec, sa, secObs, pills, pillObs, thumbs,
                 thumbObs, banner, layout, menu, session, hist, carousel,
                 widgets>>

\* document.getElementById('rotating-slot'): the placeholder is in the
\* document until the first construction replaces it
SlotInDocument == page.rotatingSlot /\ widgets.words.built = 0

TimerRotatingWords ==
  /\ IsDue("rotatingWords")
  /\ timers' = IF ~page.reducedMotion /\ SlotInDocument
               THEN SetTimeout(Rest, "rotatingStart", RotatingStartDelay, "")
               ELSE Rest
  /\ UNCHANGED <<page, phase, lottieState, hide, readyRuns, sinceReady,
                 bodyClasses, introDone, styles, theme, logo, isAutoScrolling,
                 scrollY, scrollJobs, raf, sec, sa, secObs, pills, pillObs,
                 thumbs, thumbObs, banner, layout, menu, session, hist, carousel,
                 widgets>>

\* ------------------------------------------------------------------------
\* RotatingWordsManager: the widget, its step interval and the loop reset
\* ------------------------------------------------------------------------
\* startLoop: clearInterval(intervalId), setInterval(step, STEP_EVERY_MS +
\* TRANSITION_MS)
startLoop(tm) ==
  SetTimeout(SelectSeq(tm, LAMBDA t : t.name # "rotatingStep"),
             "rotatingStep", StepEveryMs + TransitionMs, "")

\* the callback of initialize's timer: the widget is built, the slot replaced
TimerRotatingStart ==
  /\ IsDue("rotatingStart")
  /\ widgets' = [widgets EXCEPT !.words.built = @ + 1,
                                !.words.COUNT = PhraseCount]
  /\ timers' = startLoop(Rest)
  /\ UNCHANGED <<page, phase, lottieState, hide, readyRuns, sinceReady,
                 bodyClasses, introDone, styles, theme, logo, isAutoScrolling,
                 scrollY, scrollJobs, raf, sec, sa, secObs, pills, pillObs,
                 thumbs, thumbObs, banner, layout, menu, session, carousel,
                 hist>>

\* the end of a step's transition that leaves the index on the clone
stepDone_NoReset(w, atClone) == [w EXCEPT !.isAnimating = FALSE]

\* the end of a step's transition, TRANSITION_MS after the step
stepDone(w, atClone) ==
  [w EXCEPT !.isAnimating = FALSE,
            !.currentWordIndex = IF atClone THEN 0 ELSE @]

\* step()
wordStep(w, tm) ==
  IF w.isAnimating THEN [w |-> w, tm |-> tm]
  ELSE LET idx == w.currentWordIndex + 1
       IN [w |-> [w EXCEPT !.isAnimating = TRUE, !.currentWordIndex = idx],
           tm |-> SetTimeout(tm, "rotatingSettle", TransitionMs,
                             IF idx = w.COUNT THEN "reset" ELSE "")]

TimerRotatingStep ==
  /\ IsDue("rotatingStep")
  /\ LET r == wordStep(widgets.words,
                       SetTimeout(Rest, "rotatingStep",
                                  StepEveryMs + TransitionMs, ""))
     IN /\ widgets' = [widgets EXCEPT !.words = r.w]
        /\ timers' = r.tm
  /\ UNCHANGED <<page, phase, lottieState, hide, readyRuns, sinceReady,
                 bodyClasses, introDone, styles, theme, logo, isAutoScrolling,
                 scrollY, scrollJobs, raf, sec, sa, secObs, pills, pillObs,
                 thumbs, thumbObs, banner, layout, menu, session, carousel,
                 hist>>

TimerRotatingSettle ==
  /\ IsDue("rotatingSettle")
  /\ widgets' = [widgets EXCEPT !.words = stepDone(@, DueArg = "reset")]
  /\ timers' = Rest
  /\ UNCHANGED <<page, phase, lottieState, hide, readyRuns, sinceReady,
                 bodyClasses, introDone, styles, theme, logo, isAutoScrolling,
                 scrollY, scrollJobs, raf, sec, sa, secObs, pills, pillObs,
                 thumbs, thumbObs, banner, layout, menu, session, carousel,
                 hist>>

WordsSteps ==
  \/ TimerRotatingStart
  \/ TimerRotatingStep
  \/ TimerRotatingSettle

TimerAvatar ==
  /\ IsDue("avatar")
  /\ styles' = [styles EXCEPT !.avatarShown = @ \/ page.avatar]
  /\ timers' = Rest
  /\ UNCHANGED <<page, phase, lottieState, hide, readyRuns, sinceReady,
                 bodyClasses, introDone, theme, logo, isAutoScrolling,
                 scrollY, scrollJobs, raf, sec, sa, secObs, pills, pillObs,
                 thumbs, thumbObs, banner, layout, menu, session, hist, carousel,
                 widgets>>

TimerSocialIcons ==
  /\ IsDue("socialIcons")
  /\ timers' = LET T[i \in 0..page.socialIcons] ==
                     IF i = 0 THEN Rest
                     ELSE SetTimeout(T[i - 1], "socialIcon",
                                     (i - 1) * SocialIconStagger, "")
               IN T[page.socialIcons]
  /\ UNCHANGED <<page, phase, lottieState, hide, readyRuns, sinceReady,
                 bodyClasses, introDone, styles, theme, logo, isAutoScrolling,
                 scrollY, scrollJobs, raf, sec, sa, secObs, pills, pillObs,
                 thumbs, thumbObs, banner, layout, menu, session, hist, carousel,
                 widgets>>

TimerSocialIcon ==
  /\ IsDue("socialIcon")
  /\ styles' = [styles EXCEPT !.social = Min(@ + 1, page.socialIcons)]
  /\ timers' = Rest
  /\ UNCHANGED <<page, phase, lottieState, hide, readyRuns, sinceReady,
                 bodyClasses, introDone, theme, logo, isAutoScrolling,
                 scrollY, scrollJobs, raf, sec, sa, secObs, pills, pillObs,
                 thumbs, thumbObs, banner, layout, menu, session, hist, carousel,
                 widgets>>

TimerMobileSeparator ==
  /\ IsDue("mobileSeparator")
  /\ styles' = [styles EXCEPT !.sepShown = @ \/ page.mobileSep]
  /\ timers' = Rest
  /\ UNCHANGED <<page, phase, lottieState, hide, readyRuns, sinceReady,
                 bodyClasses, introDone, theme, logo, isAutoScrolling,
                 scrollY, scrollJobs, raf, sec, sa, secObs, pills, pillObs,
                 thumbs, thumbObs, banner, layout, menu, session, hist, carousel,
                 widgets>>

\* home page only: the description block is shown by inline styles
TimerDescription ==
  /\ IsDue("description")
  /\ timers' = Rest
  /\ IF ~ProjectPage /\ "desc" \in page.sections
     THEN /\ sec' = IF sec["desc"].hiddenInit
                    THEN [sec EXCEPT !["desc"].hiddenInit = FALSE,
                                     !["desc"].removals = @ + 1]
                    ELSE sec
          /\ styles' = [styles EXCEPT !.descShown = TRUE]
     ELSE UNCHANGED <<sec, styles>>
  /\ UNCHANGED <<page, phase, lottieState, hide, readyRuns, sinceReady,
                 bodyClasses, introDone, theme, logo, isAutoScrolling,
                 scrollY, scrollJobs, raf, sa, secObs, pills, pillObs, thumbs,
                 thumbObs, banner, layout, menu, session, hist, carousel,
                 widgets>>

TimerBanner ==
  /\ IsDue("banner")
  /\ raf' = IF page.bannerImg THEN raf \cup {"bannerReveal"} ELSE raf
  /\ timers' = Rest
  /\ UNCHANGED <<page, phase, lottieState, hide, readyRuns, sinceReady,
                 bodyClasses, introDone, styles, theme, logo, isAutoScrolling,
                 scrollY, scrollJobs, sec, sa, secObs, pills, pillObs, thumbs,
                 thumbObs, banner, layout, menu, session, hist, carousel,
                 widgets>>

HeroOf(th) ==
  {t \in page.thumbs : th.hero[t] /\
     \A u \in page.thumbs : th.hero[u] =>
        (\E i, j \in DOMAIN ThumbOrder :
            ThumbOrder[i] = t /\ ThumbOrder[j] = u /\ i <= j)}

\* the thumbnails phase up to PillAnimator.initialize()
UnlockHero(th, auto, y, w) ==
  IF HeroOf(th) = {} THEN th
  ELSE LET h == CHOOSE t \in HeroOf(th) : TRUE
           a == [th EXCEPT !.visible[h] = TRUE]
       IN updateThumbnailsOnScroll(refreshThumbnails(a, y, w), auto, y, w)

NewThumbObservers(obs, list) ==
  LET F[i \in 0..Len(list)] ==
        IF i = 0 THEN obs
        ELSE Append(F[i - 1], [target |-> list[i], active |-> TRUE, rep |-> "none"])
  IN F[Len(list)]

\* ExperienceManager.initialize: addEventListener ignores a listener that is
\* already registered, so the named click handler is kept once while every
\* call adds another anonymous keydown handler
initializeExperience(acc) ==
  [i \in Items |->
     IF i > page.experienceItems THEN acc[i]
     ELSE [acc[i] EXCEPT !.ariaExpanded = "false", !.ariaHidden = "true",
                         !.clickListeners = 1, !.keyListeners = @ + 1]]

TimerThumbnails ==
  /\ IsDue("thumbnails")
  /\ bodyClasses' = (bodyClasses \cup {"app-stage-content", "projects-unlocked"})
                    \ {"projects-locked"}
  /\ pillObs' = IF page.pills THEN Append(pillObs, [active |-> TRUE, rep |-> "none"])
                ELSE pillObs
  /\ LET th1 == UnlockHero(thumbs, isAutoScrolling, scrollY, layout.innerWidth)
         list == SeqOf(ThumbOrder, page.thumbs)
     IN IF list = <<>>
        THEN /\ thumbs' = [th1 EXCEPT !.list = list]
             /\ thumbObs' = thumbObs
             /\ timers' = Rest
        ELSE /\ thumbs' = [th1 EXCEPT !.list = list, !.hero[list[1]] = TRUE,
                                      !.listeners = @ + 1]
             /\ thumbObs' = NewThumbObservers(thumbObs, list)
             /\ timers' = SetTimeout(Rest, "thumbInitialUpdate",
                                     ThumbInitialUpdateDelay, "")
  /\ widgets' = [widgets EXCEPT !.accordion = initializeExperience(@)]
  /\ UNCHANGED <<page, phase, lottieState, hide, readyRuns, sinceReady,
                 introDone, styles, theme, logo, isAutoScrolling, scrollY,
                 scrollJobs, raf, sec, sa, secObs, pills, banner, layout,
                 menu, session, hist, carousel>>

TimerThumbInitialUpdate ==
  /\ IsDue("thumbInitialUpdate")
  /\ thumbs' = updateThumbnailsOnScroll(thumbs, isAutoScrolling, scrollY,
                                        layout.innerWidth)
  /\ timers' = Rest
  /\ UNCHANGED <<page, phase, lottieState, hide, readyRuns, sinceReady,
                 bodyClasses, introDone, styles, theme, logo, isAutoScrolling,
                 scrollY, scrollJobs, raf, sec, sa, secObs, pills, pillObs,
                 thumbObs, banner, layout, menu, session, hist, carousel,
                 widgets>>

TimerCaratIndicator ==
  /\ IsDue("caratIndicator")
  /\ styles' = IF page.carat /\ page.bannerEl
               THEN [styles EXCEPT !.caratVisible = TRUE, !.caratListeners = @ + 1]
               ELSE styles
  /\ timers' = Rest
  /\ UNCHANGED <<page, phase, lottieState, hide, readyRuns, sinceReady,
                 bodyClasses, introDone, theme, logo, isAutoScrolling,
                 scrollY, scrollJobs, raf, sec, sa, secObs, pills, pillObs,
                 thumbs, thumbObs, banner, layout, menu, session, hist, carousel,
                 widgets>>

TimerLogoVisible ==
  /\ IsDue("logoVisible")
  /\ logo' = [logo EXCEPT !.visible = TRUE]
  /\ timers' = Rest
  /\ UNCHANGED <<page, phase, lottieState, hide, readyRuns, sinceReady,
                 bodyClasses, introDone, styles, theme, isAutoScrolling,
                 scrollY, scrollJobs, raf, sec, sa, secObs, pills, pillObs,
                 thumbs, thumbObs, banner, layout, menu, session, hist, carousel,
                 widgets>>

\* project page: staggered reveal of a section that was in view at init
TimerSecReveal ==
  /\ IsDue("secReveal")
  /\ LET W == IF DueArg = "desc"
              THEN projectPageDescriptionReveal(World(Rest), DueArg)
              ELSE simpleReveal(World(Rest), DueArg)
     IN /\ sec' = W.sec
        /\ timers' = W.tm
  /\ UNCHANGED <<page, phase, lottieState, hide, readyRuns, sinceReady,
                 bodyClasses, introDone, styles, theme, logo, isAutoScrolling,
                 scrollY, scrollJobs, raf, sa, secObs, pills, pillObs, thumbs,
                 thumbObs, banner, layout, menu, session, hist, carousel,
                 widgets>>

TimerTextChildFinish ==
  /\ IsDue("textChildFinish")
  /\ sec' = [sec EXCEPT ![DueArg].childHidden = FALSE]
  /\ timers' = Rest
  /\ UNCHANGED <<page, phase, lottieState, hide, readyRuns, sinceReady,
                 bodyClasses, introDone, styles, theme, logo, isAutoScrolling,
                 scrollY, scrollJobs, raf, sa, secObs, pills, pillObs, thumbs,
                 thumbObs, banner, layout, menu, session, hist, carousel,
                 widgets>>

TimerPillFinish ==
  /\ IsDue("pillFinish")
  /\ pills' = [pills EXCEPT !.hidden = FALSE]
  /\ timers' = Rest
  /\ UNCHANGED <<page, phase, lottieState, hide, readyRuns, sinceReady,
                 bodyClasses, introDone, styles, theme, logo, isAutoScrolling,
                 scrollY, scrollJobs, raf, sec, sa, secObs, pillObs, thumbs,
                 thumbObs, banner, layout, menu, session, hist, carousel,
                 widgets>>

TimerThumbStore ==
  /\ IsDue("thumbStore")
  /\ thumbs' = [thumbs EXCEPT !.pos[DueArg] = storePosition(DueArg, layout.innerWidth)]
  /\ timers' = Rest
  /\ UNCHANGED <<page, phase, lottieState, hide, readyRuns, sinceReady,
                 bodyClasses, introDone, styles, theme, logo, isAutoScrolling,
                 scrollY, scrollJobs, raf, sec, sa, secObs, pills, pillObs,
                 thumbObs, banner, layout, menu, session, hist, carousel,
                 widgets>>

\* ------------------------------------------------------------------------
\* IntersectionObserver callbacks.  An observer reports a target when what
\* it last reported differs from the target's current status; the first
\* report follows observe().
\* ------------------------------------------------------------------------
SecStatus(s) == IOStatus(s, scrollY, layout.innerWidth, 1, 10)
ThumbStatus(t) == IOStatus(t, scrollY, layout.innerWidth, 1, 20)
PillStatus == IOStatus("pills", scrollY, layout.innerWidth, 6, 10)

SecIOPending(o, s) == s \in secObs[o].targets /\ secObs[o].rep[s] # SecStatus(s)
ThumbIOPending(i) == thumbObs[i].active /\ thumbObs[i].rep # ThumbStatus(thumbObs[i].target)
PillIOPending(i) == pillObs[i].active /\ pillObs[i].rep # PillStatus

SecPendingAny == \E o \in DOMAIN secObs : \E s \in Sections : SecIOPending(o, s)
ThumbPendingAny == \E i \in DOMAIN thumbObs : ThumbIOPending(i)
PillPendingAny == \E i \in DOMAIN pillObs : PillIOPending(i)

IOPending == SecPendingAny \/ ThumbPendingAny \/ PillPendingAny

\* notifications are delivered observer by observer in creation order, the
\* entries of one observer in document order
SecRank(s) == CHOOSE i \in DOMAIN SectionOrder : SectionOrder[i] = s

SecIONext(o, s) ==
  /\ SecIOPending(o, s)
  /\ \A o2 \in DOMAIN secObs : \A s2 \in Sections :
        SecIOPending(o2, s2) =>
          (o < o2 \/ (o = o2 /\ SecRank(s) <= SecRank(s2)))

ThumbIONext(i) ==
  /\ ~SecPendingAny
  /\ ThumbIOPending(i)
  /\ \A j \in DOMAIN thumbObs : ThumbIOPending(j) => i <= j

PillIONext(i) ==
  /\ ~SecPendingAny /\ ~ThumbPendingAny
  /\ PillIOPending(i)
  /\ \A j \in DOMAIN pillObs : PillIOPending(j) => i <= j

\* onIntersect without its test of isAutoScrolling
onIntersect_NoFlagTest(W, obs, o, s, status, auto, project) ==
  LET seen == [obs EXCEPT ![o].rep[s] = status]
  IN IF status = "in"
     THEN [W |-> RevealSection(W, s, project),
           obs |-> [seen EXCEPT ![o].targets = @ \ {s}]]
     ELSE [W |-> W, obs |-> seen]

\* SectionAnimator.onIntersect for one entry
onIntersect(W, obs, o, s, status, auto, project) ==
  LET seen == [obs EXCEPT ![o].rep[s] = status]
  IN IF auto THEN [W |-> W, obs |-> seen]
     ELSE IF status = "in"
     THEN [W |-> RevealSection(W, s, project),
           obs |-> [seen EXCEPT ![o].targets = @ \ {s}]]
     ELSE [W |-> W, obs |-> seen]

SecIntersect ==
  \E o \in DOMAIN secObs : \E s \in Sections :
    /\ SecIONext(o, s)
    /\ LET r == onIntersect(World(timers), secObs, o, s, SecStatus(s),
                            isAutoScrolling, ProjectPage)
       IN /\ sec' = r.W.sec
          /\ timers' = r.W.tm
          /\ styles' = [styles EXCEPT !.caratVisible = r.W.carat]
          /\ secObs' = r.obs
    /\ UNCHANGED <<page, phase, lottieState, hide, readyRuns, sinceReady,
                   bodyClasses, introDone, theme, logo, isAutoScrolling,
                   scrollY, scrollJobs, raf, sa, pills, pillObs, thumbs,
                   thumbObs, banner, layout, menu, session, hist, carousel,
                   widgets>>

\* initializeThumbnail's observer callback for one entry
\* an observer callback that makes fadeIn-visible follow the intersection
\* and keeps observing
onThumbIntersect_FollowsView(th, ob, status, auto) ==
  IF auto THEN [th |-> th, active |-> TRUE, store |-> FALSE]
  ELSE [th |-> [th EXCEPT !.visible[ob.target] = (status = "in")],
        active |-> TRUE, store |-> status = "in"]

onThumbIntersect(th, ob, status, auto) ==
  IF auto \/ status # "in" THEN [th |-> th, active |-> TRUE, store |-> FALSE]
  ELSE [th |-> [th EXCEPT !.visible[ob.target] = TRUE],
        active |-> FALSE, store |-> TRUE]

ThumbIntersect ==
  \E i \in DOMAIN thumbObs :
    /\ ThumbIONext(i)
    /\ LET ob == thumbObs[i]
           st == ThumbStatus(ob.target)
           r == onThumbIntersect(thumbs, ob, st, isAutoScrolling)
       IN /\ thumbs' = r.th
          /\ thumbObs' = [thumbObs EXCEPT ![i].rep = st, ![i].active = r.active]
          /\ timers' = IF r.store
                       THEN SetTimeout(timers, "thumbStore", ThumbStoreDelay, ob.target)
                       ELSE timers
    /\ UNCHANGED <<page, phase, lottieState, hide, readyRuns, sinceReady,
                   bodyClasses, introDone, styles, theme, logo, isAutoScrolling,
                   scrollY, scrollJobs, raf, sec, sa, secObs, pills, pillObs,
                   banner, layout, menu, session, hist, carousel, widgets>>

\* PillAnimator's observer callback (requires ratio >= 0.6, its threshold)
onPillIntersect(pl, status, auto) ==
  IF auto \/ status # "in" THEN [pl |-> pl, active |-> TRUE, anim |-> FALSE]
  ELSE [pl |-> IF pl.hidden THEN [pl EXCEPT !.starts = @ + 1] ELSE pl,
        active |-> FALSE, anim |-> pl.hidden]

PillIntersect ==
  \E i \in DOMAIN pillObs :
    /\ PillIONext(i)
    /\ LET r == onPillIntersect(pills, PillStatus, isAutoScrolling)
       IN /\ pills' = r.pl
          /\ pillObs' = [pillObs EXCEPT ![i].rep = PillStatus, ![i].active = r.active]
          /\ timers' = IF r.anim
                       THEN SetTimeout(timers, "pillFinish", PillFinishMs, "")
                       ELSE timers
    /\ UNCHANGED <<page, phase, lottieState, hide, readyRuns, sinceReady,
                   bodyClasses, introDone, styles, theme, logo, isAutoScrolling,
                   scrollY, scrollJobs, raf, sec, sa, secObs, thumbs, thumbObs,
                   banner, layout, menu, session, hist, carousel, widgets>>

\* ------------------------------------------------------------------------
\* Animation frames and the passage of time
\* ------------------------------------------------------------------------
\* the expand path's requestAnimationFrame callback of item i
ExpandNames == <<"expand1", "expand2", "expand3", "expand4">>
ExpandFrame(i) == ExpandNames[i]

\* bodyText.style.maxHeight = scrollHeight + paddingBuffer, for every item
\* with a callback waiting
expandFrames(acc, pending) ==
  [i \in Items |-> IF ExpandFrame(i) \in pending
                   THEN [acc[i] EXCEPT !.maxHeight = "full"] ELSE acc[i]]

Frame ==
  /\ raf # {}
  /\ raf' = {}
  /\ banner' = IF "banner" \in raf
               THEN updateBannerOnScroll(banner, scrollY, layout.innerWidth)
               ELSE banner
  /\ thumbs' = IF "thumbs" \in raf
               THEN updateThumbnailsOnScroll(thumbs, isAutoScrolling, scrollY,
                                             layout.innerWidth)
               ELSE thumbs
  /\ styles' = IF "bannerReveal" \in raf
               THEN [styles EXCEPT !.bannerImgHidden = FALSE] ELSE styles
  /\ widgets' = [widgets EXCEPT !.accordion = expandFrames(@, raf)]
  /\ UNCHANGED <<hist, page, phase, lottieState, hide, readyRuns, timers,
                 sinceReady, bodyClasses, introDone, theme, logo,
                 isAutoScrolling, scrollY, scrollJobs, sec, sa, secObs, pills,
                 pillObs, thumbObs, layout, menu, session, carousel>>

ClockCap == 2400

UserTimers == {"scrollEnd", "scrollReset", "menuScroll", "navOnTop",
               "menuFocus", "themeUnlock", "layoutResize"}

UserTimerPending == \E i \in DOMAIN timers : timers[i].name \in UserTimers

\* time passes up to the next timer, or by Quantum while a timer started by
\* a user event is pending (the next event may fall between two timers);
\* frames and observer notifications are delivered first
Advance ==
  /\ timers # <<>>
  /\ MinLeft(timers) > 0
  /\ raf = {}
  /\ ~IOPending
  /\ \E d \in {MinLeft(timers)} \cup
              (IF Quantum < MinLeft(timers) /\ UserTimerPending
               THEN {Quantum} ELSE {}) :
       /\ timers' = [i \in DOMAIN timers |->
                       [timers[i] EXCEPT !.left = @ - d]]
       /\ sinceReady' = IF sinceReady < 0 THEN sinceReady
                        ELSE Min(sinceReady + d, ClockCap)
  /\ hide' = IF styles.preloaderHidden THEN [hide EXCEPT !.fadeLive = FALSE]
             ELSE hide
  /\ UNCHANGED <<page, phase, lottieState, readyRuns, bodyClasses, introDone,
                 styles, theme, logo, isAutoScrolling, scrollY, scrollJobs,
                 raf, sec, sa, secObs, pills, pillObs, thumbs, thumbObs,
                 banner, layout, menu, session, hist, carousel, widgets>>

\* ------------------------------------------------------------------------
\* Scrolling
\* ------------------------------------------------------------------------
ScrollStops == {0, 700, 1540, 2140}

\* the visitor acts on the settled page: the cascade's phases have all run
CascadePhases == {"headerText", "rotatingWords", "avatar", "socialIcons",
                  "socialIcon", "mobileSeparator", "description", "banner",
                  "thumbnails", "caratIndicator"}

Settled ==
  /\ readyRuns > 0
  /\ \A i \in DOMAIN timers : timers[i].name \notin CascadePhases
CaratOffset == 120

\* smoothScrollTo: its last animation frame comes `duration` after the
\* first, its reset timer after duration + 50
\* smoothScrollTo without its reset timer
smoothScrollTo_NoReset(tm, target, duration) ==
  SetTimeout(tm, "scrollEnd", duration, target)

smoothScrollTo(tm, target, duration) ==
  SetTimeout(SetTimeout(tm, "scrollEnd", duration, target),
             "scrollReset", duration + ScrollResetSlack, "")

ScrollTarget(target, w) == Clamp(Rect(target, w).top - NavOffset, 0, MaxScrollY)

ScrollInProgress == Pending("scrollEnd")

UserScroll(y) ==
  /\ Settled
  /\ y # scrollY
  /\ hist.events < MaxUserEvents
  /\ hist' = [hist EXCEPT !.events = @ + 1]
  /\ scrollY' = y
  /\ raf' = raf \cup ScrollRequests(banner, thumbs)
  /\ UNCHANGED <<page, phase, lottieState, hide, readyRuns, timers,
                 sinceReady, bodyClasses, introDone, styles, theme, logo,
                 isAutoScrolling, scrollJobs, sec, sa, secObs, pills, pillObs,
                 thumbs, thumbObs, banner, layout, menu, session, carousel,
                 widgets>>

\* click on a same-page hash link outside the mobile overlay
LinkClick(target) ==
  /\ session.linkHandlers
  /\ Settled
  /\ hist.events < MaxUserEvents
  /\ hist' = [hist EXCEPT !.events = @ + 1]
  /\ IF TargetExists(target)
     THEN /\ isAutoScrolling' = TRUE
          /\ timers' = smoothScrollTo(timers, target, ScrollDuration)
     ELSE UNCHANGED <<isAutoScrolling, timers>>
  /\ UNCHANGED <<page, phase, lottieState, hide, readyRuns, sinceReady,
                 bodyClasses, introDone, styles, theme, logo, scrollY,
                 scrollJobs, raf, sec, sa, secObs, pills, pillObs, thumbs,
                 thumbObs, banner, layout, menu, session, carousel, widgets>>

TimerHashScroll ==
  /\ IsDue("hashScroll")
  /\ isAutoScrolling' = TRUE
  /\ timers' = smoothScrollTo(Rest, DueArg, ScrollDuration)
  /\ UNCHANGED <<page, phase, lottieState, hide, readyRuns, sinceReady,
                 bodyClasses, introDone, styles, theme, logo, scrollY,
                 scrollJobs, raf, sec, sa, secObs, pills, pillObs, thumbs,
                 thumbObs, banner, layout, menu, session, hist, carousel,
                 widgets>>

\* the last window.scrollTo of a smoothScrollTo animation
TimerScrollEnd ==
  /\ IsDue("scrollEnd")
  /\ scrollY' = ScrollTarget(DueArg, layout.innerWidth)
  /\ raf' = IF scrollY' # scrollY THEN raf \cup ScrollRequests(banner, thumbs) ELSE raf
  /\ timers' = Rest
  /\ UNCHANGED <<page, phase, lottieState, hide, readyRuns, sinceReady,
                 bodyClasses, introDone, styles, theme, logo, isAutoScrolling,
                 scrollJobs, sec, sa, secObs, pills, pillObs, thumbs,
                 thumbObs, banner, layout, menu, session, hist, carousel,
                 widgets>>

\* smoothScrollTo's reset callback
TimerScrollReset ==
  /\ IsDue("scrollReset")
  /\ isAutoScrolling' = FALSE
  /\ LET W == refresh(World(Rest), sa, scrollY, layout.innerWidth, ProjectPage)
     IN /\ sec' = W.sec
        /\ timers' = W.tm
        /\ styles' = [styles EXCEPT !.caratVisible = W.carat]
  /\ secObs' = RefreshUnobserve(secObs, sa, sec, scrollY, layout.innerWidth)
  /\ thumbs' = updateThumbnailsOnScroll(
                  refreshThumbnails(thumbs, scrollY, layout.innerWidth),
                  FALSE, scrollY, layout.innerWidth)
  /\ hist' = [hist EXCEPT !.resets = Min(@ + 1, 2 * MaxUserEvents + 2)]
  /\ UNCHANGED <<page, phase, lottieState, hide, readyRuns, sinceReady,
                 bodyClasses, introDone, theme, logo, scrollY, scrollJobs,
                 raf, sa, pills, pillObs, thumbObs, banner, layout, menu,
                 session, carousel, widgets>>

\* the carat's click handler: window.scrollTo({behavior: 'smooth'})
CaratClick ==
  /\ Settled
  /\ styles.caratListeners > 0
  /\ styles.caratVisible
  /\ ~scrollJobs.native
  /\ hist.events < MaxUserEvents
  /\ hist' = [hist EXCEPT !.events = @ + 1]
  /\ scrollJobs' = IF "desc" \in page.sections
                   THEN [scrollJobs EXCEPT !.native = TRUE] ELSE scrollJobs
  /\ UNCHANGED <<page, phase, lottieState, hide, readyRuns, timers,
                 sinceReady, bodyClasses, introDone, styles, theme, logo,
                 isAutoScrolling, scrollY, raf, sec, sa, secObs, pills,
                 pillObs, thumbs, thumbObs, banner, layout, menu, session, carousel,
                 widgets>>

\* the browser finishes a native smooth scroll
NativeScrollEnd ==
  /\ scrollJobs.native
  /\ scrollJobs' = [scrollJobs EXCEPT !.native = FALSE]
  /\ scrollY' = Clamp(Rect("desc", layout.innerWidth).top - CaratOffset, 0, MaxScrollY)
  /\ raf' = IF scrollY' # scrollY THEN raf \cup ScrollRequests(banner, thumbs) ELSE raf
  /\ UNCHANGED <<page, phase, lottieState, hide, readyRuns, timers,
                 sinceReady, bodyClasses, introDone, styles, theme, logo,
                 isAutoScrolling, sec, sa, secObs, pills, pillObs, thumbs,
                 thumbObs, banner, layout, menu, session, hist, carousel,
                 widgets>>

\* ------------------------------------------------------------------------
\* MobileMenuManager
\* ------------------------------------------------------------------------
\* openMobileMenu that leaves the overlay's aria-hidden alone
openMobileMenu_KeepsAriaHidden(m) ==
  IF m.active THEN m
  ELSE [m EXCEPT !.prev = m.focus, !.active = TRUE,
                 !.isActive = TRUE, !.expanded = TRUE, !.navOnTop = TRUE]

openMobileMenu(m) ==
  IF m.active THEN m
  ELSE [m EXCEPT !.prev = m.focus, !.active = TRUE, !.ariaHidden = FALSE,
                 !.isActive = TRUE, !.expanded = TRUE, !.navOnTop = TRUE]

\* closeMobileMenu leaving the hamburger's aria-expanded untouched
closeMobileMenu_KeepsExpanded(m) ==
  IF ~m.active THEN m
  ELSE [m EXCEPT !.active = FALSE, !.ariaHidden = TRUE, !.isActive = FALSE,
                 !.focus = IF m.prev # "none" THEN m.prev ELSE @]

closeMobileMenu(m) ==
  IF ~m.active THEN m
  ELSE [m EXCEPT !.active = FALSE, !.ariaHidden = TRUE, !.isActive = FALSE,
                 !.expanded = FALSE,
                 !.focus = IF m.prev # "none" THEN m.prev ELSE @]

\* click on the hamburger icon: toggleMobileMenu
MenuToggle ==
  /\ menu.inits > 0
  /\ Settled
  /\ hist.events < MaxUserEvents
  /\ hist' = [hist EXCEPT !.events = @ + 1]
  /\ LET m0 == [menu EXCEPT !.focus = "hamburger"]
     IN IF menu.active
        THEN /\ menu' = closeMobileMenu(m0)
             /\ bodyClasses' = bodyClasses \ {"mobile-menu-active"}
             /\ timers' = SetTimeout(timers, "navOnTop", NavOnTopDelay, "")
        ELSE /\ menu' = openMobileMenu(m0)
             /\ bodyClasses' = bodyClasses \cup {"mobile-menu-active"}
             /\ timers' = SetTimeout(timers, "menuFocus", MenuFocusDelay, "")
  /\ UNCHANGED <<page, phase, lottieState, hide, readyRuns, sinceReady,
                 introDone, styles, theme, logo, isAutoScrolling, scrollY,
                 scrollJobs, raf, sec, sa, secObs, pills, pillObs, thumbs,
                 thumbObs, banner, layout, session, carousel, widgets>>

\* the focus timer of openMobileMenu.  It is never cancelled; when the
\* overlay has been closed meanwhile, whether focus() still takes effect
\* depends on whether the closing overlay is still rendered
TimerMenuFocus ==
  /\ IsDue("menuFocus")
  /\ LET firstFocusable == IF page.menuLinks > 0 THEN "link" ELSE "hamburger"
     IN \E f \in (IF menu.active THEN {firstFocusable}
                  ELSE {firstFocusable, menu.focus}) :
          menu' = [menu EXCEPT !.focus = f]
  /\ timers' = Rest
  /\ UNCHANGED <<page, phase, lottieState, hide, readyRuns, sinceReady,
                 bodyClasses, introDone, styles, theme, logo, isAutoScrolling,
                 scrollY, scrollJobs, raf, sec, sa, secObs, pills, pillObs,
                 thumbs, thumbObs, banner, layout, session, hist, carousel,
                 widgets>>

TimerNavOnTop ==
  /\ IsDue("navOnTop")
  /\ menu' = [menu EXCEPT !.navOnTop = FALSE]
  /\ timers' = Rest
  /\ UNCHANGED <<page, phase, lottieState, hide, readyRuns, sinceReady,
                 bodyClasses, introDone, styles, theme, logo, isAutoScrolling,
                 scrollY, scrollJobs, raf, sec, sa, secObs, pills, pillObs,
                 thumbs, thumbObs, banner, layout, session, hist, carousel,
                 widgets>>

\* keydown of Escape on the document: handleEscapeKey (handleFocusTrap, the
\* other keydown listener, acts on Tab only)
MaxMenuKeys == 2

\* toggleMobileMenu on the menu, the body's classes and the timers
toggleMobileMenu(W) ==
  IF W.menu.active
  THEN [menu |-> closeMobileMenu(W.menu),
        body |-> W.body \ {"mobile-menu-active"},
        tm |-> SetTimeout(W.tm, "navOnTop", NavOnTopDelay, "")]
  ELSE [menu |-> openMobileMenu(W.menu),
        body |-> W.body \cup {"mobile-menu-active"},
        tm |-> SetTimeout(W.tm, "menuFocus", MenuFocusDelay, "")]

RECURSIVE toggleMenuTimes(_, _)
toggleMenuTimes(W, n) ==
  IF n = 0 THEN W ELSE toggleMenuTimes(toggleMobileMenu(W), n - 1)

\* Enter or Space on the focused hamburger icon: every initialize has added
\* one anonymous keydown listener, and each of them toggles
MenuKeyToggle ==
  /\ menu.inits > 0
  /\ Settled
  /\ menu.focus = "hamburger"
  /\ hist.menuKeys < MaxMenuKeys
  /\ hist' = [hist EXCEPT !.menuKeys = @ + 1]
  /\ LET r == toggleMenuTimes([menu |-> menu, body |-> bodyClasses,
                               tm |-> timers], menu.inits)
     IN /\ menu' = r.menu
        /\ bodyClasses' = r.body
        /\ timers' = r.tm
  /\ UNCHANGED <<page, phase, lottieState, hide, readyRuns, sinceReady,
                 introDone, styles, theme, logo, isAutoScrolling, scrollY,
                 scrollJobs, raf, sec, sa, secObs, pills, pillObs, thumbs,
                 thumbObs, banner, layout, session, carousel, widgets>>

EscapeKey ==
  /\ menu.inits > 0
  /\ Settled
  /\ hist.events < MaxUserEvents
  /\ hist' = [hist EXCEPT !.events = @ + 1, !.escapes = @ + 1]
  /\ IF menu.active
     THEN /\ menu' = closeMobileMenu(menu)
          /\ bodyClasses' = bodyClasses \ {"mobile-menu-active"}
          /\ timers' = SetTimeout(timers, "navOnTop", NavOnTopDelay, "")
     ELSE UNCHANGED <<menu, bodyClasses, timers>>
  /\ UNCHANGED <<page, phase, lottieState, hide, readyRuns, sinceReady,
                 introDone, styles, theme, logo, isAutoScrolling, scrollY,
                 scrollJobs, raf, sec, sa, secObs, pills, pillObs, thumbs,
                 thumbObs, banner, layout, session, carousel, widgets>>

\* the links of the overlay: same-page hash, cross-page '.html#', any other
MenuLinks ==
  {[kind |-> "hash", target |-> "text"], [kind |-> "hash", target |-> "missing"],
   [kind |-> "cross", target |-> "text"], [kind |-> "cross", target |-> ""],
   [kind |-> "other", target |-> ""]}

\* click on a link inside the open overlay: the document-wide listeners
\* attached at 'load' (attachSamePageSmoothScroll, attachCrossPageHashSaver)
\* run first, the overlay still open, then handleLinkClick
MenuLinkClick(link) ==
  /\ menu.inits > 0
  /\ menu.active
  /\ Settled
  /\ session.linkHandlers
  /\ hist.events < MaxUserEvents
  /\ menu' = closeMobileMenu(menu)
  /\ bodyClasses' = bodyClasses \ {"mobile-menu-active"}
  /\ LET scrolls == link.kind = "hash" /\ TargetExists(link.target)
         t1 == IF scrolls
               THEN smoothScrollTo(timers, link.target, ScrollDuration)
               ELSE timers
         t2 == SetTimeout(t1, "navOnTop", NavOnTopDelay, "")
     IN /\ timers' = IF scrolls
                     THEN SetTimeout(t2, "menuScroll", MenuScrollDelay,
                                     link.target)
                     ELSE t2
        /\ isAutoScrolling' = (isAutoScrolling \/ scrolls)
        /\ session' = IF link.kind = "cross" /\ link.target # ""
                      THEN [session EXCEPT !.targetHash = link.target]
                      ELSE session
        /\ hist' = [hist EXCEPT !.events = @ + 1,
                                !.openScrolls = IF scrolls THEN @ + 1 ELSE @]
  /\ UNCHANGED <<page, phase, lottieState, hide, readyRuns, sinceReady,
                 introDone, styles, theme, logo, scrollY, scrollJobs, raf,
                 sec, sa, secObs, pills, pillObs, thumbs, thumbObs, banner,
                 layout, carousel, widgets>>

TimerMenuScroll ==
  /\ IsDue("menuScroll")
  /\ isAutoScrolling' = TRUE
  /\ timers' = smoothScrollTo(Rest, DueArg, ScrollDuration)
  /\ UNCHANGED <<page, phase, lottieState, hide, readyRuns, sinceReady,
                 bodyClasses, introDone, styles, theme, logo, scrollY,
                 scrollJobs, raf, sec, sa, secObs, pills, pillObs, thumbs,
                 thumbObs, banner, layout, menu, session, hist, carousel,
                 widgets>>

\* ------------------------------------------------------------------------
\* ThemeManager.toggleThemeAndIconState
\* ------------------------------------------------------------------------
\* toggleThemeAndIconState without the early return on the lock
ToggleAccepted_NoLock(th) == TRUE

ToggleAccepted(th) == ~th.transitioning

\* toggleThemeAndIconState that leaves the class of <html> alone
toggleThemeAndIconState_BodyOnly(th, isCurrentlyDark) ==
  LET dark == ~isCurrentlyDark
  IN [th EXCEPT !.transitioning = TRUE,
                !.stored = IF dark THEN "enabled" ELSE "disabled",
                !.active = dark,
                !.isMoon = dark,
                !.bannerSrc = ThemedSrc(@, page.bannerImg /\ page.isHome, dark),
                !.logoSrc = ThemedSrc(@, TRUE, dark)]

toggleThemeAndIconState(th, isCurrentlyDark) ==
  LET dark == ~isCurrentlyDark
  IN [th EXCEPT !.transitioning = TRUE,
                !.htmlDark = dark,
                !.stored = IF dark THEN "enabled" ELSE "disabled",
                !.active = dark,
                !.isMoon = dark,
                !.bannerSrc = ThemedSrc(@, page.bannerImg /\ page.isHome, dark),
                !.logoSrc = ThemedSrc(@, TRUE, dark)]

ThemeToggle ==
  /\ theme.listener
  /\ hist.events < MaxUserEvents
  /\ IF ToggleAccepted(theme)
     THEN LET isCurrentlyDark == "dark-mode" \in bodyClasses
          IN /\ theme' = toggleThemeAndIconState(theme, isCurrentlyDark)
             /\ bodyClasses' =
                  IF isCurrentlyDark
                  THEN (bodyClasses \cup {"light-mode-transition"}) \ {"dark-mode"}
                  ELSE bodyClasses \cup {"dark-mode-transition", "dark-mode"}
             /\ hist' = [hist EXCEPT !.events = @ + 1, !.toggleRequests = @ + 1,
                                      !.darkWrites = @ + 1,
                                      !.errors = IF LogoLoadThrows THEN @ + 1
                                                 ELSE @]
             /\ IF LogoLoadThrows
                THEN /\ logo' = [logo EXCEPT !.playing = FALSE]
                     /\ timers' = timers
                ELSE /\ logo' = loadAnimationByTheme(logo, theme'.htmlDark)
                     /\ timers' = SetTimeout(timers, "themeUnlock", ThemeLockMs, "")
     ELSE /\ hist' = [hist EXCEPT !.events = @ + 1, !.toggleRequests = @ + 1]
          /\ UNCHANGED <<theme, bodyClasses, logo, timers>>
  /\ UNCHANGED <<page, phase, lottieState, hide, readyRuns, sinceReady,
                 introDone, styles, isAutoScrolling, scrollY, scrollJobs, raf,
                 sec, sa, secObs, pills, pillObs, thumbs, thumbObs, banner,
                 layout, menu, session, carousel, widgets>>

TimerThemeUnlock ==
  /\ IsDue("themeUnlock")
  /\ bodyClasses' = bodyClasses \ {"light-mode-transition", "dark-mode-transition"}
  /\ theme' = [theme EXCEPT !.transitioning = FALSE]
  /\ timers' = Rest
  /\ UNCHANGED <<page, phase, lottieState, hide, readyRuns, sinceReady,
                 introDone, styles, logo, isAutoScrolling, scrollY,
                 scrollJobs, raf, sec, sa, secObs, pills, pillObs, thumbs,
                 thumbObs, banner, layout, menu, session, hist, carousel,
                 widgets>>

\* ------------------------------------------------------------------------
\* Specifications
\* ------------------------------------------------------------------------
IntroLayouts ==
  { [present |-> FALSE, rows |-> <<>>],
    [present |-> TRUE,  rows |-> <<>>],
    [present |-> TRUE,  rows |-> <<1, 2>>] }

\* ------------------------------------------------------------------------
\* MobileMenuManager.handleFocusTrap
\* ------------------------------------------------------------------------
MaxMenuLinks == 2
MaxTabs == 3
LinkNames == <<"link", "link2", "link3", "link4">>

\* allFocusable: the hamburger icon, then the overlay's focusable elements
FocusList == <<"hamburger">> \o SubSeq(LinkNames, 1, page.menuLinks)

\* handleFocusTrap comparing with the last element on Shift+Tab as well
handleFocusTrap_ShiftTestsLast(m, F, shiftKey) ==
  LET firstElement == F[1]
      lastElement == F[Len(F)]
      stay == [focus |-> m.focus, prevented |-> FALSE]
  IN IF ~m.active THEN stay
     ELSE IF Len(F) = 1 /\ m.focus = "hamburger"
     THEN [focus |-> m.focus, prevented |-> TRUE]
     ELSE IF m.focus = lastElement
          THEN [focus |-> IF shiftKey THEN lastElement ELSE firstElement,
                prevented |-> TRUE]
          ELSE stay

\* handleFocusTrap on a Tab keydown: the focus it leaves and whether it
\* called preventDefault
handleFocusTrap(m, F, shiftKey) ==
  LET firstElement == F[1]
      lastElement == F[Len(F)]
      stay == [focus |-> m.focus, prevented |-> FALSE]
  IN IF ~m.active THEN stay
     ELSE IF Len(F) = 1 /\ m.focus = "hamburger"
     THEN [focus |-> m.focus, prevented |-> TRUE]
     ELSE IF shiftKey
          THEN IF m.focus = firstElement
               THEN [focus |-> lastElement, prevented |-> TRUE] ELSE stay
          ELSE IF m.focus = lastElement
               THEN [focus |-> firstElement, prevented |-> TRUE] ELSE stay

PosIn(F, x) == CHOOSE i \in DOMAIN F : F[i] = x

\* where the browser's own Tab handling may put focus when the keydown was
\* not prevented: the neighbour inside the overlay, and around the hamburger
\* icon whatever the document holds next to it
NativeTab(F, focus, shiftKey) ==
  IF \E i \in DOMAIN F : F[i] = focus
  THEN LET i == PosIn(F, focus)
       IN IF shiftKey
          THEN IF i > 2 THEN {F[i - 1]}
               ELSE IF i = 2 THEN {"hamburger", "outside"} ELSE {"outside"}
          ELSE IF i = 1 THEN (IF Len(F) > 1 THEN {F[2], "outside"}
                              ELSE {"outside"})
               ELSE IF i < Len(F) THEN {F[i + 1]} ELSE {"outside"}
  ELSE {"outside", "hamburger"}

\* keydown of Tab while the overlay is open: handleEscapeKey ignores it,
\* handleFocusTrap runs, then the browser's default unless prevented
TabKey(shiftKey) ==
  /\ menu.inits > 0
  /\ menu.active
  /\ Settled
  /\ hist.tabs < MaxTabs
  /\ hist' = [hist EXCEPT !.tabs = @ + 1, !.shift = shiftKey]
  /\ LET r == handleFocusTrap(menu, FocusList, shiftKey)
     IN IF r.prevented
        THEN menu' = [menu EXCEPT !.focus = r.focus]
        ELSE \E f \in NativeTab(FocusList, menu.focus, shiftKey) :
               menu' = [menu EXCEPT !.focus = f]
  /\ UNCHANGED <<page, phase, lottieState, hide, readyRuns, timers,
                 sinceReady, bodyClasses, introDone, styles, theme, logo,
                 isAutoScrolling, scrollY, scrollJobs, raf, sec, sa, secObs,
                 pills, pillObs, thumbs, thumbObs, banner, layout, session,
                 carousel, widgets>>

\* ------------------------------------------------------------------------
\* Window resizes
\* ------------------------------------------------------------------------
ResizeDebounceMs == 250
MaxResizes == 2
Widths == {600, 1200}

LayoutOf(w) == IF w <= MobileBreakpoint THEN "mobile" ELSE "desktop"

\* debounce(handleResize, 250): each registration k owns one pending timeout
debounce(tm, k) ==
  SetTimeout(SelectSeq(tm, LAMBDA t : ~(t.name = "layoutResize" /\ t.arg = k)),
             "layoutResize", ResizeDebounceMs, k)

DebounceAll(tm, n) ==
  LET F[k \in 0..n] == IF k = 0 THEN tm ELSE debounce(F[k - 1], k)
  IN F[n]

\* LayoutManager.handleMediaQueryChange at the new width
handleMediaQueryChange(lay, th, y) ==
  LET newLayout == LayoutOf(lay.innerWidth)
  IN IF newLayout # lay.current
     THEN [lay |-> [lay EXCEPT !.current = newLayout,
                               !.bannerHeightLocked =
                                  IF newLayout = "desktop" THEN FALSE ELSE @],
           th |-> refreshThumbnails(th, y, lay.innerWidth)]
     ELSE [lay |-> lay, th |-> th]

\* the window is resized to width w: the 'resize' listeners run (the banner's
\* drops its snapshot, the layout's are debounced), then the media query's
\* 'change' listener if the breakpoint was crossed
\* a resize listener that leaves the cached banner position in place
clearBannerPosition_Keeps(bn) == bn

\* BannerManager's resize listener: STATE.animations.bannerPosition = null
clearBannerPosition(bn) == [bn EXCEPT !.pos = NoPos]

Resize(w) ==
  /\ Settled
  /\ w # layout.innerWidth
  /\ hist.resizes < MaxResizes
  /\ hist' = [hist EXCEPT !.resizes = @ + 1]
  /\ banner' = IF banner.resizeListeners > 0
               THEN clearBannerPosition(banner) ELSE banner
  /\ timers' = DebounceAll(timers, layout.resizeListeners)
  /\ LET lay1 == [layout EXCEPT !.innerWidth = w]
         mq == IF layout.resizeListeners > 0
                  /\ LayoutOf(w) # LayoutOf(layout.innerWidth)
               THEN handleMediaQueryChange(lay1, thumbs, scrollY)
               ELSE [lay |-> lay1, th |-> thumbs]
     IN /\ layout' = mq.lay
        /\ thumbs' = mq.th
  /\ UNCHANGED <<page, phase, lottieState, hide, readyRuns, sinceReady,
                 bodyClasses, introDone, styles, theme, logo, isAutoScrolling,
                 scrollY, scrollJobs, raf, sec, sa, secObs, pills, pillObs,
                 thumbObs, menu, session, carousel, widgets>>

\* the debounced LayoutManager.handleResize
TimerLayoutResize ==
  /\ IsDue("layoutResize")
  /\ timers' = Rest
  /\ layout' = handleResizeLayout(layout)
  /\ thumbs' = handleResizeThumbs(thumbs, layout, scrollY)
  /\ UNCHANGED <<page, phase, lottieState, hide, readyRuns, sinceReady,
                 bodyClasses, introDone, styles, theme, logo, isAutoScrolling,
                 scrollY, scrollJobs, raf, sec, sa, secObs, pills, pillObs,
                 thumbObs, banner, menu, session, carousel, hist, widgets>>

ResizeSteps ==
  \/ \E w \in Widths : Resize(w)
  \/ TimerLayoutResize

\* ------------------------------------------------------------------------
\* Page loads: cross-page links and reloads
\* ------------------------------------------------------------------------
MaxLoads == 2
Fragments == {"text", "missing"}

\* click on a link with href '...html#fragment' outside the overlay: the
\* listener of attachCrossPageHashSaver stores the fragment, then the browser
\* follows the link to a page of the same kind
CrossLinkClick(fragment) ==
  /\ session.linkHandlers
  /\ Settled
  /\ hist.loads < MaxLoads
  /\ LoadDocument(FreshDocument([page EXCEPT !.locationHash = fragment],
                                theme.stored, fragment, hist.loads + 1))

\* the visitor reloads the page: same URL, no click
Reload ==
  /\ Settled
  /\ timers = <<>>
  /\ hist.loads < MaxLoads
  /\ LoadDocument([FreshDocument(page, theme.stored, session.targetHash,
                                 hist.loads + 1)
                     EXCEPT !.hist.reloaded = TRUE])

NavigationSteps ==
  \/ \E fragment \in Fragments : CrossLinkClick(fragment)
  \/ Reload

LoadSteps ==
  \/ DOMContentLoaded
  \/ WindowLoad
  \/ TimerHidePreloader
  \/ TimerPreloaderFallback

FadeSteps ==
  \E propertyName \in {"opacity", "transform"} : TransitionEnd(propertyName)

CascadeSteps ==
  \/ TimerHeaderText
  \/ TimerIntroFinished
  \/ TimerRotatingWords
  \/ TimerAvatar
  \/ TimerSocialIcons
  \/ TimerSocialIcon
  \/ TimerMobileSeparator
  \/ TimerDescription
  \/ TimerBanner
  \/ TimerThumbnails
  \/ TimerThumbInitialUpdate
  \/ TimerCaratIndicator
  \/ TimerLogoVisible
  \/ SecIntersect
  \/ ThumbIntersect
  \/ PillIntersect
  \/ Frame
  \/ Advance

ScrollTimerSteps ==
  \/ TimerHashScroll
  \/ TimerScrollEnd
  \/ TimerScrollReset
  \/ TimerTextChildFinish
  \/ TimerPillFinish
  \/ TimerThumbStore

UserSteps ==
  \/ \E y \in ScrollStops : UserScroll(y)
  \/ \E target \in {"text", "pills"} : LinkClick(target)
  \/ CaratClick
  \/ NativeScrollEnd

MenuSteps ==
  \/ \E link \in MenuLinks : MenuLinkClick(link)
  \/ MenuToggle
  \/ EscapeKey
  \/ TimerMenuScroll
  \/ TimerMenuFocus
  \/ TimerNavOnTop

\* Page load and reveal cascade, over the page kinds and preloader set-ups
InitLoad ==
  \E pre, lot, proj \in BOOLEAN : \E intro \in IntroLayouts :
    InitWith([BasePage EXCEPT !.preloader = pre, !.lottieContainer = lot,
                              !.projectPage = proj, !.isHome = ~proj,
                              !.intro = intro],
             "none", "")

NextLoad ==
  \/ LoadSteps
  \/ FadeSteps
  \/ LottieComplete
  \/ CascadeSteps
  \/ TimerSecReveal
  \/ CancelIntroAnimation

SpecLoad == InitLoad /\ [][NextLoad]_vars

Scheduled ==
  \/ LoadSteps \/ CascadeSteps \/ ScrollTimerSteps \/ TimerSecReveal
  \/ TimerThemeUnlock \/ TimerMenuScroll \/ TimerMenuFocus \/ TimerNavOnTop
  \/ TimerLayoutResize

\* callbacks that are due always run; events of the environment need not
FairSpecLoad == SpecLoad /\ WF_vars(Scheduled)

\* Home page without a preloader element: scrolling, observers and
\* programmatic scrolls, with or without a hash saved by another page
Init ==
  \E storedHash \in {"", "text"} :
    InitWith([BasePage EXCEPT !.preloader = FALSE], "none", storedHash)

Next ==
  \/ DOMContentLoaded
  \/ WindowLoad
  \/ CascadeSteps
  \/ ScrollTimerSteps
  \/ UserSteps
  \/ MenuSteps

Spec == Init /\ [][Next]_vars

FairSpec == Spec /\ WF_vars(Scheduled)

\* Theme toggling on a page without revealable content
StoredValues == {"none", "enabled", "disabled", "true"}

InitTheme ==
  \E stored \in StoredValues : \E prefers, lib \in BOOLEAN :
    InitWith([BasePage EXCEPT !.preloader = FALSE, !.lottieLib = lib,
                              !.prefersDark = prefers],
             stored, "")

NextTheme ==
  \/ DOMContentLoaded
  \/ WindowLoad
  \/ CascadeSteps
  \/ ThemeToggle
  \/ TimerThemeUnlock

SpecTheme == InitTheme /\ [][NextTheme]_vars


\* Sections and reveal under a preloader: both page kinds, the fade's end
\* racing the fallback timer, visitor scrolls and same-page links
InitReveal ==
  \E proj \in BOOLEAN :
    InitWith([BasePage EXCEPT !.projectPage = proj, !.isHome = ~proj],
             "none", "")

NextReveal ==
  \/ LoadSteps
  \/ FadeSteps
  \/ CascadeSteps
  \/ TimerSecReveal
  \/ TimerScrollEnd
  \/ TimerScrollReset
  \/ TimerTextChildFinish
  \/ TimerPillFinish
  \/ TimerThumbStore
  \/ \E y \in ScrollStops : UserScroll(y)
  \/ \E target \in {"text", "pills"} : LinkClick(target)

SpecReveal == InitReveal /\ [][NextReveal]_vars

\* ------------------------------------------------------------------------
\* Preloader hand-off
\* ------------------------------------------------------------------------
\* C1: on a page with a preloader, whatever the order of the fade's
\* 'transitionend' and the fallback timer, onPreloaderFinishedAndModulesReady
\* has run at most once
C1_ReadyAtMostOnce == page.preloader => readyRuns <= 1

\* C2: on a page with a preloader, once the window has loaded the preloader
\* is eventually hidden and the page started, whether or not the preloader
\* animation ever completes
C2_PreloaderEventuallyHidden ==
  (page.preloader /\ phase = "loaded")
    ~> (styles.preloaderHidden /\ readyRuns > 0)

\* C3: no section's entrance animation is started twice, neither the
\* section's own nor its children's, and its hidden-init marker is removed
\* at most once
C3_RevealAtMostOnce ==
  \A s \in Sections :
    /\ sec[s].starts <= 1
    /\ sec[s].childStarts <= 1
    /\ sec[s].removals <= 1


\* ------------------------------------------------------------------------
\* Programmatic scrolls and the viewport-driven reveals
\* ------------------------------------------------------------------------
\* C4: a step taken while isAutoScrolling is and stays true leaves the
\* opacity and transform of the banner container and of every project
\* thumbnail as they were
C4_NoStyleChangeWhileAutoScrolling ==
  [][(isAutoScrolling /\ isAutoScrolling')
       => (banner'.style = banner.style /\ thumbs'.style = thumbs.style)]_vars

\* an observed element whose observer reported it in view while the callback
\* returned early, and which has not been revealed since
SecSuppressed(s) ==
  /\ \E o \in DOMAIN secObs : s \in secObs[o].targets /\ secObs[o].rep[s] = "in"
  /\ CASE s = "text" -> sec[s].childHidden /\ sec[s].childStarts = 0
       [] s = "exp"  -> sec[s].childStarts = 0
       [] OTHER      -> sec[s].hiddenInit

ThumbSuppressed(t) ==
  /\ \E i \in DOMAIN thumbObs :
        thumbObs[i].active /\ thumbObs[i].target = t /\ thumbObs[i].rep = "in"
  /\ ~thumbs.visible[t]

PillSuppressed ==
  /\ \E i \in DOMAIN pillObs : pillObs[i].active /\ pillObs[i].rep = "in"
  /\ pills.hidden /\ pills.starts = 0

HiddenInView ==
  \/ \E s \in Sections :
       SecSuppressed(s) /\ InViewport(s, scrollY, layout.innerWidth)
  \/ \E t \in Thumbs :
       ThumbSuppressed(t) /\ InViewport(t, scrollY, layout.innerWidth)
  \/ PillSuppressed /\ InViewport("pills", scrollY, layout.innerWidth)

\* C5: when the reset callback of smoothScrollTo has run, no section,
\* thumbnail or pill block whose intersection callback was suppressed is
\* left unrevealed while it overlaps the viewport
C5_SweepRevealsEverySuppressed ==
  [][(hist'.resets # hist.resets) => ~HiddenInView']_vars

\* C6: whenever a smoothScrollTo animation or the carat's smooth scroll is
\* under way, isAutoScrolling is true
C6_FlagCoversEveryScroll ==
  (ScrollInProgress \/ scrollJobs.native) => isAutoScrolling

\* C7: whenever isAutoScrolling is true it is false again later
C7_FlagEventuallyReset == isAutoScrolling ~> ~isAutoScrolling

\* both the link handler and the mobile-menu handler have set the flag and
\* every reset has come
C7_Witness ==
  /\ ~isAutoScrolling
  /\ hist.resets >= 2 /\ menu.prev = "hamburger"
  /\ ~Pending("scrollReset") /\ ~Pending("menuScroll")

\* ------------------------------------------------------------------------
\* Intro text and the cascade
\* ------------------------------------------------------------------------
CountTimers(name) ==
  Cardinality({i \in DOMAIN timers : timers[i].name = name})

HeaderTextRuns == CountTimers("headerText")' < CountTimers("headerText")

\* C8: when animateIntroText runs on a page without .introText, or on a home
\* page whose .introText holds no span, 'headerIntroDone' is dispatched
\* within that call
C8_NoIntroDoneAtOnce ==
  [][(HeaderTextRuns /\ (~page.intro.present
                          \/ (~ProjectPage /\ page.intro.rows = <<>>)))
       => introDone' = introDone + 1]_vars

C8_Witness ==
  /\ ~ProjectPage /\ page.intro.present /\ page.intro.rows = <<>>
  /\ introDone = 1
  /\ readyRuns = 1 /\ sinceReady = 0
  /\ ~Pending("headerText")

\* C9: the avatar and the description are revealed only once
\* 'headerIntroDone' has been dispatched or 2400 ms have passed since the
\* preloader finished
C9_RevealsWaitForIntro ==
  [][((styles'.avatarShown /\ ~styles.avatarShown)
        \/ (styles'.descShown /\ ~styles.descShown))
       => (introDone > 0 \/ sinceReady >= 2400)]_vars

\* ------------------------------------------------------------------------
\* Theme toggle lock
\* ------------------------------------------------------------------------
\* C10: a toggle request made while the 300 ms unlock timer of an earlier
\* toggle is pending changes neither localStorage, the classes,
\* STATE.darkMode nor the logo animation; a request made otherwise writes
\* localStorage once and flips the dark-mode class
C10_SecondToggleIgnored ==
  [][(hist'.toggleRequests # hist.toggleRequests)
       => IF Pending("themeUnlock")
          THEN /\ theme' = theme
               /\ bodyClasses' = bodyClasses
               /\ logo' = logo
               /\ hist'.darkWrites = hist.darkWrites
          ELSE theme.transitioning
               \/ /\ hist'.darkWrites = hist.darkWrites + 1
                  /\ ("dark-mode" \in bodyClasses') # ("dark-mode" \in bodyClasses)]_vars

C10_Witness ==
  /\ hist.toggleRequests = 2
  /\ hist.darkWrites = 1
  /\ Pending("themeUnlock")


\* Theme on pages with and without the toggle icon
InitThemePages ==
  \E stored \in StoredValues : \E prefers, icon \in BOOLEAN :
    InitWith([BasePage EXCEPT !.preloader = FALSE, !.icon = icon,
                              !.prefersDark = prefers],
             stored, "")

SpecThemePages == InitThemePages /\ [][NextTheme]_vars

\* ------------------------------------------------------------------------
\* Theme: lock release and initial resolution
\* ------------------------------------------------------------------------
\* C11: while STATE.darkMode.transitioning is true, the timer that clears it
\* is pending and at most 300 ms away, on every page configuration
C11_LockHasUnlockTimer ==
  theme.transitioning =>
    \E i \in DOMAIN timers :
      timers[i].name = "themeUnlock" /\ timers[i].left <= ThemeLockMs

\* C12: once DOMContentLoaded has run with 'enabled' stored, and before any
\* toggle, body and html carry dark-mode, STATE.darkMode.active is true and
\* the themed images show their dark sources, on every page
C12_StoredEnabledIsDark ==
  (phase # "parsing" /\ hist.darkWrites = 0 /\ theme.stored = "enabled")
    => /\ "dark-mode" \in bodyClasses
       /\ theme.htmlDark
       /\ theme.active
       /\ theme.logoSrc = "dark"
       /\ (page.bannerImg /\ page.isHome) => theme.bannerSrc = "dark"

TimerCarouselTick ==
  /\ IsDue("carouselTick")
  /\ LET k == DueArg
     IN /\ carousel' = showSlide(carousel, k, carousel.closures[k].currentIndex + 1)
        /\ timers' = startInterval(Rest, k)
  /\ UNCHANGED <<page, phase, lottieState, hide, readyRuns, sinceReady,
                 bodyClasses, introDone, styles, theme, logo, isAutoScrolling,
                 scrollY, scrollJobs, raf, sec, sa, secObs, pills, pillObs,
                 thumbs, thumbObs, banner, layout, menu, session, hist,
                 widgets>>

\* the click handlers of every closure that found the control, in the order
\* they were attached: showSlide(currentIndex + step); resetInterval()
NavHandlers(car, tm, step) ==
  LET F[k \in 0..Len(car.closures)] ==
        IF k = 0 THEN [car |-> car, tm |-> tm]
        ELSE IF ~car.closures[k].nav THEN F[k - 1]
        ELSE [car |-> showSlide(F[k - 1].car, k,
                                F[k - 1].car.closures[k].currentIndex + step),
              tm |-> startInterval(clearInterval(F[k - 1].tm, k), k)]
  IN F[Len(car.closures)]

\* click on .carousel-nav.prev (step = -1) or .carousel-nav.next (step = 1)
CarouselNav(step) ==
  /\ Settled
  /\ page.carousel /\ page.carouselNav /\ ~carousel.navHidden
  /\ hist.events < MaxUserEvents
  /\ hist' = [hist EXCEPT !.events = @ + 1]
  /\ LET r == NavHandlers(carousel, timers, step)
     IN /\ carousel' = r.car
        /\ timers' = r.tm
  /\ UNCHANGED <<page, phase, lottieState, hide, readyRuns, sinceReady,
                 bodyClasses, introDone, styles, theme, logo, isAutoScrolling,
                 scrollY, scrollJobs, raf, sec, sa, secObs, pills, pillObs,
                 thumbs, thumbObs, banner, layout, menu, session, widgets>>

CarouselSteps ==
  \/ TimerCarouselTick
  \/ \E step \in {-1, 1} : CarouselNav(step)

\* ------------------------------------------------------------------------
\* ExperienceManager: the accordion
\* ------------------------------------------------------------------------
MaxToggles == 3

\* toggleExperienceItem on one item: the new item and whether a frame
\* callback was requested
toggleExperienceItem(it) ==
  IF it.ariaExpanded = "true"
  THEN [item |-> [it EXCEPT !.ariaExpanded = "false", !.ariaHidden = "true",
                            !.isExpanded = FALSE, !.maxHeight = "0"],
        frame |-> FALSE]
  ELSE [item |-> [it EXCEPT !.ariaExpanded = "true", !.ariaHidden = "false",
                            !.isExpanded = TRUE],
        frame |-> TRUE]

\* n listeners of one event run toggleExperienceItem one after the other
RECURSIVE toggleTimes(_, _)
toggleTimes(it, n) ==
  IF n = 0 THEN [item |-> it, frame |-> FALSE]
  ELSE LET a == toggleExperienceItem(it)
           b == toggleTimes(a.item, n - 1)
       IN [item |-> b.item, frame |-> a.frame \/ b.frame]

\* a click (key = FALSE) or an Enter/Space keydown (key = TRUE) on item i
AccordionToggle(i, key) ==
  /\ i <= page.experienceItems
  /\ widgets.accordion[i].clickListeners > 0
  /\ hist.toggles < MaxToggles
  /\ hist' = [hist EXCEPT !.toggles = @ + 1]
  /\ LET it == widgets.accordion[i]
         r == toggleTimes(it, IF key THEN it.keyListeners ELSE it.clickListeners)
     IN /\ widgets' = [widgets EXCEPT !.accordion[i] = r.item]
        /\ raf' = IF r.frame THEN raf \cup {ExpandFrame(i)} ELSE raf
  /\ UNCHANGED <<page, phase, lottieState, hide, readyRuns, timers,
                 sinceReady, bodyClasses, introDone, styles, theme, logo,
                 isAutoScrolling, scrollY, scrollJobs, sec, sa, secObs, pills,
                 pillObs, thumbs, thumbObs, banner, layout, menu, session,
                 carousel>>

AccordionSteps ==
  \E i \in Items : \E key \in BOOLEAN : AccordionToggle(i, key)

MaxSlides == 3

\* The home page with a carousel, with and without a preloader
InitCarousel ==
  \E pre, nav \in BOOLEAN : \E n \in 0..MaxSlides : \E c \in {0, n} :
    InitWith([BasePage EXCEPT !.preloader = pre, !.carousel = TRUE,
                              !.slides = n, !.captions = c,
                              !.carouselNav = nav],
             "none", "")

NextCarousel ==
  \/ LoadSteps
  \/ FadeSteps
  \/ CascadeSteps
  \/ CarouselSteps

SpecCarousel == InitCarousel /\ [][NextCarousel]_vars


\* C14: on a carousel of at most one slide the controls are hidden once the
\* page has started, no auto-advance timer exists, and the active slide is
\* the one the markup made active
C14_SingleSlideIsStatic ==
  (page.carousel /\ page.slides <= 1)
    => /\ ~Pending("carouselTick")
       /\ carousel.closures = <<>>
       /\ (readyRuns > 0 /\ page.carouselNav) => carousel.navHidden
       /\ carousel.active = (IF page.slides = 1 THEN {0} ELSE {})

C14_Witness ==
  /\ page.carousel /\ page.slides = 1 /\ page.carouselNav
  /\ Settled /\ timers = <<>>
  /\ carousel.navHidden /\ carousel.active = {0}

\* C15: on a carousel of N > 1 slides every index stays within 0..N-1, an
\* index changes only by one step modulo N, and a step that runs showSlide
\* leaves exactly the slide at that closure's currentIndex active
C15_CarouselWraps ==
  [][(page.carousel /\ page.slides > 1 /\ carousel' # carousel)
       => LET n == page.slides
              cl == carousel.closures
              cl2 == carousel'.closures
          IN /\ \A k \in DOMAIN cl2 : cl2[k].currentIndex \in 0..(n - 1)
             /\ \A k \in DOMAIN cl :
                  \/ cl2[k].currentIndex = cl[k].currentIndex
                  \/ cl2[k].currentIndex = (cl[k].currentIndex + 1) % n
                  \/ cl2[k].currentIndex = (cl[k].currentIndex + n - 1) % n
             /\ (\E k \in DOMAIN cl : cl2[k] # cl[k])
                  => /\ Cardinality(carousel'.active) = 1
                     /\ \E k \in DOMAIN cl :
                          /\ cl2[k] # cl[k]
                          /\ carousel'.active = {cl2[k].currentIndex}]_vars

\* an advance from the last slide has wrapped to the first and a retreat
\* from the first has wrapped to the last
C15_Witness ==
  /\ page.carousel /\ page.slides = MaxSlides
  /\ carousel.wrapped = {"first", "last"}
  /\ Len(carousel.closures) = 1
  /\ carousel.closures[1].currentIndex = MaxSlides - 1
  /\ carousel.active = {MaxSlides - 1}

\* ------------------------------------------------------------------------
\* Layout: resizes across the breakpoint and the thumbnails' snapshots
\* ------------------------------------------------------------------------
\* The home page without a preloader, opened at either layout, resized and
\* scrolled by the visitor
InitLayout ==
  \E w \in Widths :
    InitWith([BasePage EXCEPT !.preloader = FALSE, !.innerWidth = w],
             "none", "")

NextLayout ==
  \/ DOMContentLoaded
  \/ WindowLoad
  \/ CascadeSteps
  \/ TimerThumbStore
  \/ \E y \in ScrollStops : UserScroll(y)
  \/ ResizeSteps

SpecLayout == InitLayout /\ [][NextLayout]_vars

\* a position snapshot that no longer matches the thumbnail's geometry
StaleSnapshot(t) ==
  /\ InList(thumbs.list, t) /\ thumbs.visible[t]
  /\ thumbs.pos[t] # NoPos
  /\ thumbs.pos[t] # Rect(t, layout.innerWidth)

\* C16: whenever updateThumbnailsOnScroll is about to compute, after a
\* resize across the breakpoint, no visible thumbnail carries a snapshot
\* measured at the other layout
C16_NoStaleSnapshotAtScroll ==
  ("thumbs" \in raf /\ ~isAutoScrolling) => \A t \in Thumbs : ~StaleSnapshot(t)


\* ------------------------------------------------------------------------
\* Missing collaborators
\* ------------------------------------------------------------------------
\* C17: whichever optional elements and libraries the page has, no handler
\* has raised an error
C17_NoEntryPointThrows == hist.errors = 0


\* ------------------------------------------------------------------------
\* Mobile menu: links, focus and Escape
\* ------------------------------------------------------------------------
\* C18: no smoothScrollTo has been started by a click inside the overlay
\* while the overlay was still open
C18_ScrollOnlyAfterClose == hist.openScrolls = 0

\* C19: once the menu has been opened and closed again, focus rests on the
\* element recorded at the opening
C19_FocusRestoredAfterClose ==
  (menu.inits > 0 /\ ~menu.active /\ menu.prev # "none")
    => menu.focus = menu.prev

\* C20: an Escape keydown on the open overlay closes it (no 'active',
\* aria-hidden true, aria-expanded false); on the closed overlay it changes
\* nothing
C20_EscapeCloses ==
  [][(hist'.escapes # hist.escapes)
       => IF menu.active
          THEN ~menu'.active /\ menu'.ariaHidden /\ ~menu'.expanded
          ELSE /\ menu' = menu
               /\ timers' = timers
               /\ bodyClasses' = bodyClasses
               /\ isAutoScrolling' = isAutoScrolling
               /\ scrollY' = scrollY
               /\ session' = session]_vars

\* the overlay was opened and an Escape has closed it: its close timer is
\* still pending
C20_Witness ==
  /\ hist.escapes = 1 /\ hist.events = 2
  /\ ~menu.active /\ menu.ariaHidden /\ ~menu.expanded
  /\ menu.prev = "hamburger"
  /\ Pending("navOnTop")


\* ------------------------------------------------------------------------
\* Mobile menu: the focus trap
\* ------------------------------------------------------------------------
\* The home page without a preloader, its overlay holding 0..MaxMenuLinks
\* focusable links; the visitor opens, closes and tabs
InitFocus ==
  \E n \in 0..MaxMenuLinks :
    InitWith([BasePage EXCEPT !.preloader = FALSE, !.menuLinks = n], "none", "")

NextFocus ==
  \/ DOMContentLoaded
  \/ WindowLoad
  \/ CascadeSteps
  \/ MenuToggle
  \/ EscapeKey
  \/ TimerMenuFocus
  \/ TimerNavOnTop
  \/ \E shiftKey \in BOOLEAN : TabKey(shiftKey)

SpecFocus == InitFocus /\ [][NextFocus]_vars

InFocusList(x) == \E i \in DOMAIN FocusList : FocusList[i] = x

\* C21: on a Tab keydown with the overlay open, Tab on the last element of
\* the focus list puts focus on the first, Shift+Tab on the first puts it on
\* the last, and whenever the handler itself moves focus the new element is
\* in the list
C21_FocusTrapWraps ==
  [][(hist'.tabs # hist.tabs /\ menu.active)
       => LET F == FocusList
              r == handleFocusTrap(menu, F, hist'.shift)
          IN /\ (~hist'.shift /\ menu.focus = F[Len(F)])
                  => menu'.focus = F[1]
             /\ (hist'.shift /\ menu.focus = F[1])
                  => menu'.focus = F[Len(F)]
             /\ r.prevented
                  => menu'.focus = r.focus /\ InFocusList(menu'.focus)]_vars

\* before the open's focus timer has moved focus off the hamburger icon, one
\* Shift+Tab has put it on the last link of the overlay
C21_Witness ==
  /\ menu.active /\ page.menuLinks = MaxMenuLinks
  /\ hist.tabs = 1 /\ hist.shift
  /\ Pending("menuFocus")
  /\ menu.focus = FocusList[Len(FocusList)]

\* ------------------------------------------------------------------------
\* Observers
\* ------------------------------------------------------------------------
\* a step that delivers an intersection entry to some observer callback
IODelivered ==
  \/ /\ Len(secObs') = Len(secObs)
     /\ \E o \in DOMAIN secObs : secObs'[o].rep # secObs[o].rep
  \/ /\ Len(thumbObs') = Len(thumbObs)
     /\ \E i \in DOMAIN thumbObs : thumbObs'[i].rep # thumbObs[i].rep
  \/ /\ Len(pillObs') = Len(pillObs)
     /\ \E i \in DOMAIN pillObs : pillObs'[i].rep # pillObs[i].rep

\* C22: an intersection entry delivered while isAutoScrolling is true starts
\* no animation, adds no fadeIn-visible, removes no hidden-init and
\* unobserves nothing
C22_ObserversSilentWhileAutoScrolling ==
  [][(isAutoScrolling /\ IODelivered)
       => /\ sec' = sec /\ thumbs' = thumbs /\ pills' = pills
          /\ timers' = timers /\ styles' = styles
          /\ \A o \in DOMAIN secObs : secObs'[o].targets = secObs[o].targets
          /\ \A i \in DOMAIN thumbObs : thumbObs'[i].active = thumbObs[i].active
          /\ \A i \in DOMAIN pillObs : pillObs'[i].active = pillObs[i].active]_vars

\* during a programmatic scroll an observer has been told that a section is
\* in view, and the section is still hidden and still observed
C22_Witness ==
  /\ isAutoScrolling
  /\ \E o \in DOMAIN secObs : \E s \in Sections :
       /\ s \in secObs[o].targets
       /\ secObs[o].rep[s] = "in"
       /\ sec[s].hiddenInit


Observing(s) == {o \in DOMAIN secObs : s \in secObs[o].targets}

\* C23: no section is registered with more than one observer, and a section
\* whose reveal has started is observed by none
C23_RevealedIsUnobserved ==
  \A s \in Sections :
    /\ Cardinality(Observing(s)) <= 1
    /\ sec[s].starts > 0 => Observing(s) = {}


\* ------------------------------------------------------------------------
\* The cascade's schedule
\* ------------------------------------------------------------------------
Offset(name) ==
  CASE name = "headerText"      -> DelayHeaderText
    [] name = "socialIcons"     -> DelaySocialIcons
    [] name = "banner"          -> DelayBanner
    [] name = "avatar"          -> DelayAvatar
    [] name = "mobileSeparator" -> DelayMobileSeparator
    [] name = "description"     -> DelayDescription
    [] name = "thumbnails"      -> DelayThumbnails
    [] name = "caratIndicator"  -> DelayCaratIndicator
    [] name = "rotatingWords"   -> DelayRotatingWords

Phases == {"headerText", "socialIcons", "banner", "avatar", "mobileSeparator",
           "description", "thumbnails", "caratIndicator", "rotatingWords"}

PhaseRuns(name) == CountTimers(name)' < CountTimers(name)

\* C24: a phase's callback runs when the time since the page started equals
\* its offset (the clock is read up to ClockCap), no phase with a smaller
\* offset is still waiting, and every waiting phase is due its offset after
\* the start
C24_PhasesRunAtTheirOffsets ==
  [][\A name \in Phases :
       PhaseRuns(name)
         => /\ sinceReady = Min(Offset(name), ClockCap)
            /\ \A i \in DOMAIN timers' :
                 timers'[i].name \in Phases
                   => /\ Offset(timers'[i].name) >= Offset(name)
                      /\ timers'[i].left
                           = Offset(timers'[i].name) - Offset(name)]_vars

\* the last phase, the rotating words, has run and no phase is waiting
C24_Witness ==
  /\ readyRuns = 1
  /\ sinceReady = ClockCap
  /\ \A i \in DOMAIN timers : timers[i].name \notin Phases
  /\ styles.caratVisible


\* ------------------------------------------------------------------------
\* The saved fragment across page loads
\* ------------------------------------------------------------------------
\* The home page, with and without a preloader, entered with or without a
\* fragment in its URL; cross-page links and reloads lead to further loads
InitHash ==
  \E pre \in BOOLEAN : \E h \in {"", "text"} :
    InitWith([BasePage EXCEPT !.preloader = pre, !.locationHash = h], "none", "")

NextHash ==
  \/ LoadSteps
  \/ FadeSteps
  \/ CascadeSteps
  \/ TimerHashScroll
  \/ TimerScrollEnd
  \/ TimerScrollReset
  \/ TimerThumbStore
  \/ NavigationSteps

SpecHash == InitHash /\ [][NextHash]_vars


\* C25: in a load that found a fragment under 'targetHash', the step that
\* starts the page leaves none stored, whether or not its target exists, at
\* most one smooth scroll to it is registered, and none when the target is
\* missing; a load that follows without a new click starts with none stored
C25_FragmentConsumedOnce ==
  [][/\ (hist.fragmentAtLoad # "" /\ readyRuns' > readyRuns)
          => /\ session'.targetHash = ""
             /\ CountTimers("hashScroll")' <= 1
             /\ ~TargetExists(hist.fragmentAtLoad)
                  => CountTimers("hashScroll")' = 0
     /\ (hist'.loads > hist.loads /\ hist'.reloaded)
          => hist'.fragmentAtLoad = ""]_vars

\* a second load, reached by a cross-page link, has consumed the fragment
\* and its smooth scroll is registered
C25_Witness ==
  /\ hist.loads = 1
  /\ readyRuns = 1
  /\ page.locationHash = "text"
  /\ session.targetHash = ""
  /\ CountTimers("hashScroll") = 1


\* the theme toggle next to the events that must not touch the preference:
\* every stored value and OS preference, scrolling, resizing, the mobile
\* menu; the clicks on the toggle come once the cascade has been registered
\* and run
InitPersist ==
  \E stored \in StoredValues : \E prefers \in BOOLEAN :
    InitWith([BasePage EXCEPT !.preloader = FALSE, !.prefersDark = prefers],
             stored, "")

SettledThemeToggle == Settled /\ ThemeToggle

PersistScrollStops == {700}

NextPersist ==
  \/ DOMContentLoaded
  \/ WindowLoad
  \/ CascadeSteps
  \/ TimerThumbStore
  \/ \E y \in PersistScrollStops : UserScroll(y)
  \/ ResizeSteps
  \/ MenuToggle
  \/ TimerMenuFocus
  \/ TimerNavOnTop
  \/ SettledThemeToggle
  \/ TimerThemeUnlock

SpecPersist == InitPersist /\ [][NextPersist]_vars

\* C26: the value stored under 'darkMode' changes only in a step that is a
\* click on the theme toggle accepted by the transition lock; the initial
\* theme resolution, resizes, scrolls, menu steps, reveals and timers keep it
C26_OnlyToggleWritesPreference ==
  [][theme'.stored # theme.stored
       => /\ hist'.toggleRequests = hist.toggleRequests + 1
          /\ ToggleAccepted(theme)
          /\ hist'.darkWrites = hist.darkWrites + 1]_vars

\* nothing was stored, the OS preference chose the dark theme, an accepted
\* toggle wrote 'disabled', and a scroll and a resize followed
C26_Witness ==
  /\ page.prefersDark
  /\ theme.stored = "disabled"
  /\ hist.darkWrites = 1
  /\ hist.resizes > 0
  /\ scrollY > 0
  /\ ~theme.transitioning


\* C27: a carousel with more than one slide never has more than one advance
\* interval alive, and right after a click on prev or next every interval
\* alive is a full SlideDuration away from its next advance
C27_OneIntervalRestartedByClick ==
  [][/\ page.slides > 1 => CountTimers("carouselTick")' <= 1
     /\ hist'.events > hist.events
          => \A i \in DOMAIN timers' :
               timers'[i].name = "carouselTick"
                 => timers'[i].left = SlideDuration]_vars

\* a click on the settled page has restarted the only interval
C27_Witness ==
  /\ page.slides > 1
  /\ hist.events = 1
  /\ readyRuns = 1
  /\ CountTimers("carouselTick") = 1
  /\ \E i \in DOMAIN timers :
       timers[i].name = "carouselTick" /\ timers[i].left = SlideDuration


\* what an element shows, in thousandths: a cleared inline style leaves the
\* stylesheet's full opacity and scale
Shown(style) == IF style = NoStyle THEN [op |-> 1000, sc |-> 1000] ELSE style

\* the scroll effect as a function of the distance scrolled past the
\* element's top edge, starting `offset` px after the edge has passed
FadeBy(distanceFromTop, offset, effectRange, endOpacity) ==
  IF distanceFromTop < 0
  THEN LET past == Clamp(Abs(distanceFromTop) - offset, 0, effectRange)
       IN [op |-> interpolate(1000, endOpacity, past, effectRange),
           sc |-> interpolate(1000, 900, past, effectRange)]
  ELSE [op |-> 1000, sc |-> 1000]

\* a frame that runs the scroll handlers
ScrollFrame(what) == what \in raf /\ raf' = {}

BannerFollowsScroll ==
  (ScrollFrame("banner") /\ page.bannerEl)
    => banner'.style =
         FadeBy(banner'.pos.top - scrollY, 0,
                IF layout.innerWidth > MobileBreakpoint
                THEN BannerRangeDesktop ELSE BannerRangeMobile, 0)

RevealedThumbs == {t \in Thumbs : InList(thumbs.list, t) /\ thumbs.visible[t]}

\* C28 as stated: in a frame that runs the scroll handlers the banner and
\* every revealed thumbnail get progress = clamp(|distanceFromTop| /
\* effectRange, 0, 1) when distanceFromTop is negative, and full opacity and
\* scale otherwise
C28_ProgressFromTopEdge ==
  [][/\ BannerFollowsScroll
     /\ (ScrollFrame("thumbs") /\ ~isAutoScrolling)
          => \A t \in RevealedThumbs :
               Shown(thumbs'.style[t]) =
                 FadeBy(thumbs'.pos[t].top - scrollY, 0, ThumbEffectRange, 800)
    ]_vars

\* C28 amended: the banner as stated; a revealed thumbnail that overlaps the
\* viewport gets progress = clamp((|distanceFromTop| - 50) / effectRange, 0,
\* 1) when distanceFromTop is negative; a thumbnail outside the viewport or
\* with distanceFromTop >= 0 has its inline opacity and scale cleared
C28_ThumbProgressAfterStartOffset ==
  [][/\ BannerFollowsScroll
     /\ (ScrollFrame("thumbs") /\ ~isAutoScrolling)
          => \A t \in RevealedThumbs :
               LET pos == thumbs'.pos[t]
                   inView == /\ pos.top < scrollY + ViewportH
                             /\ pos.top + pos.height > scrollY
               IN IF inView /\ pos.top - scrollY < 0
                  THEN thumbs'.style[t] =
                         FadeBy(pos.top - scrollY, ThumbStartOffset,
                                ThumbEffectRange, 800)
                  ELSE thumbs'.style[t] = NoStyle
    ]_vars

\* the banner has faded out completely and a revealed thumbnail is part of
\* the way through its effect
C28_Witness ==
  /\ raf = {}
  /\ banner.style.op = 0
  /\ banner.style.sc = 900
  /\ \E t \in RevealedThumbs :
       /\ thumbs.style[t].op > 800 /\ thumbs.style[t].op < 1000
       /\ thumbs.pos[t].top - scrollY < 0


\* C29: a resize leaves no cached banner position; a frame that runs
\* updateBannerOnScroll keeps a cached position and measures a missing one,
\* so the position it uses is the banner's rectangle at the current width;
\* no other step changes a cached position
C29_BannerCacheFreshAfterResize ==
  [][/\ (hist'.resizes > hist.resizes /\ banner.resizeListeners > 0)
          => banner'.pos = NoPos
     /\ (ScrollFrame("banner") /\ page.bannerEl)
          => /\ banner'.pos = Rect("banner", layout.innerWidth)
             /\ banner.pos # NoPos => banner'.pos = banner.pos
     /\ (hist'.resizes = hist.resizes /\ banner.pos # NoPos)
          => banner'.pos = banner.pos]_vars

\* after a resize to the narrow layout a scroll frame has measured the
\* banner again: the cached rectangle is the narrow one
C29_Witness ==
  /\ hist.resizes > 0
  /\ layout.innerWidth <= MobileBreakpoint
  /\ raf = {}
  /\ scrollY > 0
  /\ banner.pos = Rect("banner", layout.innerWidth)
  /\ banner.pos # Geo.banner
  /\ banner.style.op < 1000


InitWords ==
  \E pre, slot, reduced \in BOOLEAN :
    InitWith([BasePage EXCEPT !.preloader = pre, !.rotatingSlot = slot,
                              !.reducedMotion = reduced],
             "none", "")

NextWords ==
  \/ LoadSteps
  \/ FadeSteps
  \/ CascadeSteps
  \/ WordsSteps

SpecWords == InitWords /\ [][NextWords]_vars

WordTimers == {"rotatingStart", "rotatingStep", "rotatingSettle"}

\* C31: currentWordIndex stays in 0..COUNT; a step that changes it adds one,
\* or takes it from COUNT to 0; the step that reaches COUNT leaves the reset
\* TRANSITION_MS away and the index sits on COUNT only while that reset is
\* pending; under reduced motion the widget and its timers never exist
C31_WordsCycleInOrder ==
  [][LET w == widgets.words
         v == widgets'.words
     IN /\ v.currentWordIndex \in 0..v.COUNT
        /\ v.currentWordIndex # w.currentWordIndex
             => \/ v.currentWordIndex = w.currentWordIndex + 1
                \/ w.currentWordIndex = w.COUNT /\ v.currentWordIndex = 0
        /\ (v.currentWordIndex = v.COUNT /\ w.currentWordIndex # w.COUNT)
             => \E i \in DOMAIN timers' :
                  /\ timers'[i].name = "rotatingSettle"
                  /\ timers'[i].arg = "reset"
                  /\ timers'[i].left = TransitionMs
        /\ (v.COUNT > 0 /\ v.currentWordIndex = v.COUNT)
             => \E i \in DOMAIN timers' :
                  timers'[i].name = "rotatingSettle" /\ timers'[i].arg = "reset"
        /\ page.reducedMotion
             => /\ v.built = 0
                /\ \A i \in DOMAIN timers' : timers'[i].name \notin WordTimers
    ]_vars

\* the index has gone round: it is back at 0 after the reset, a step is not
\* in progress and the interval is alive
C31_Witness ==
  /\ widgets.words.built > 0
  /\ widgets.words.currentWordIndex = 0
  /\ ~widgets.words.isAnimating
  /\ CountTimers("rotatingStep") = 1
  /\ \E i \in DOMAIN timers :
       timers[i].name = "rotatingStep" /\ timers[i].left = StepEveryMs


\* the home page with an accordion, with and without a preloader
InitAccordion ==
  \E pre \in BOOLEAN : \E n \in 1..MaxItems :
    InitWith([BasePage EXCEPT !.preloader = pre, !.experienceItems = n],
             "none", "")

NextAccordion ==
  \/ LoadSteps
  \/ FadeSteps
  \/ CascadeSteps
  \/ AccordionSteps

SpecAccordion == InitAccordion /\ [][NextAccordion]_vars

ItemInitialized(i) == widgets.accordion[i].clickListeners > 0

\* C32: on every initialized item aria-hidden is the negation of
\* aria-expanded and 'is-expanded' is present exactly when aria-expanded is
\* 'true'; every click or Enter/Space on an item flips its aria-expanded
C32_AccordionStateAgrees ==
  [][/\ \A i \in Items :
          LET it == widgets'.accordion[i]
          IN it.clickListeners > 0
               => /\ it.ariaExpanded \in {"true", "false"}
                  /\ it.ariaHidden = (IF it.ariaExpanded = "true"
                                      THEN "false" ELSE "true")
                  /\ it.isExpanded <=> it.ariaExpanded = "true"
     /\ hist'.toggles > hist.toggles
          => \E i \in Items :
               /\ widgets'.accordion[i].ariaExpanded # widgets.accordion[i].ariaExpanded
               /\ \A j \in Items \ {i} : widgets'.accordion[j] = widgets.accordion[j]
    ]_vars


MaxReadyRuns == 2

\* C33: 'headerIntroDone' is never dispatched more often than
\* animateIntroText has been called, and the n-th call is always followed by
\* an n-th dispatch, on every branch and also when the call's animations are
\* cancelled
C33_EveryIntroCallSignalsOnce ==
  /\ [](introDone <= hist.introCalls)
  /\ \A n \in 1..MaxReadyRuns :
       (hist.introCalls >= n) ~> (introDone >= n)

\* a home page with spans whose intro animations were cancelled: the call
\* has signalled, ahead of the animations' end
C33_Witness ==
  /\ ~ProjectPage /\ page.intro.present /\ page.intro.rows # <<>>
  /\ hist.cancels = 1
  /\ hist.introCalls = 1
  /\ introDone = 1
  /\ sinceReady < 1000


\* C34: the step that builds the rotating-word widget (replaces the slot and
\* starts the step interval) is the callback of the cascade's rotatingWords
\* phase, which runs DelayRotatingWords after the preloader has finished
C34_WidgetBuiltAtItsOffset ==
  [][widgets'.words.built > widgets.words.built
       => /\ CountTimers("rotatingWords")' < CountTimers("rotatingWords")
          /\ CountTimers("rotatingStep")' > 0]_vars


\* C35: on a page with the theme icon, once DOMContentLoaded has run, body
\* has 'dark-mode' iff html has it iff STATE.darkMode.active; and once a
\* toggle has been accepted, 'enabled' is stored iff STATE.darkMode.active
C35_ThemeViewsAgree ==
  (page.icon /\ phase # "parsing")
    => /\ ("dark-mode" \in bodyClasses) = theme.htmlDark
       /\ theme.htmlDark = theme.active
       /\ hist.darkWrites > 0 => ((theme.stored = "enabled") = theme.active)

\* the OS preference made the page dark with nothing stored, and two
\* accepted toggles brought it back to dark
C35_Witness ==
  /\ page.icon /\ page.prefersDark
  /\ hist.darkWrites = 2
  /\ theme.stored = "enabled"
  /\ theme.active /\ theme.htmlDark /\ "dark-mode" \in bodyClasses
  /\ ~theme.transitioning


\* the mobile menu alone: clicks and key presses on the hamburger icon,
\* Escape, clicks on the overlay's links, and the menu's timers, with and
\* without a preloader
InitMenu ==
  \E pre \in BOOLEAN :
    InitWith([BasePage EXCEPT !.preloader = pre], "none", "")

NextMenu ==
  \/ LoadSteps
  \/ FadeSteps
  \/ CascadeSteps
  \/ MenuSteps
  \/ MenuKeyToggle
  \/ TimerScrollEnd
  \/ TimerScrollReset

SpecMenu == InitMenu /\ [][NextMenu]_vars

\* C36: the overlay's 'active' class, its aria-hidden 'false', the
\* hamburger's aria-expanded 'true', its 'is-active' class and the body's
\* 'mobile-menu-active' class are all present or all absent; openMobileMenu
\* on an open menu and closeMobileMenu on a closed one return it unchanged
C36_MenuIndicatorsAgree ==
  /\ menu.active = ~menu.ariaHidden
  /\ menu.active = menu.expanded
  /\ menu.active = menu.isActive
  /\ menu.active = ("mobile-menu-active" \in bodyClasses)
  /\ menu.active => openMobileMenu(menu) = menu
  /\ ~menu.active => closeMobileMenu(menu) = menu

\* the menu was opened by a click, closed by Escape and opened again from
\* the keyboard
C36_Witness ==
  /\ hist.events = 2 /\ hist.escapes = 1 /\ hist.menuKeys = 1
  /\ menu.active /\ ~menu.ariaHidden /\ menu.expanded /\ menu.isActive
  /\ "mobile-menu-active" \in bodyClasses

\* C37: whenever the overlay is open, .navMobile carries 'nav-on-top'
C37_OpenMenuIsOnTop == menu.active => menu.navOnTop


\* the thumbnails phase on the home page, the first thumbnail's markup with
\* and without 'is-hero', with and without a preloader, and visitor scrolls
InitHero ==
  \E pre, marked \in BOOLEAN :
    InitWith([BasePage EXCEPT !.preloader = pre, !.heroMarkup = marked],
             "none", "")

NextHero ==
  \/ LoadSteps
  \/ FadeSteps
  \/ CascadeSteps
  \/ TimerThumbStore
  \/ \E y \in ScrollStops : UserScroll(y)

SpecHero == InitHero /\ [][NextHero]_vars

FirstThumb == SeqOf(ThumbOrder, page.thumbs)[1]

\* C38: when the thumbnails phase callback has run, the first project
\* thumbnail has 'fadeIn-visible', whether or not the markup carried 'is-hero'
C38_HeroShownByThumbnailsPhase ==
  [][(page.thumbs # {} /\ CountTimers("thumbnails")' < CountTimers("thumbnails"))
       => thumbs'.visible[FirstThumb]]_vars


\* C39: once no deferred expand write is pending, a collapsed item has
\* max-height '0' and an expanded item has scrollHeight + 32 px
C39_MaxHeightFollowsState ==
  (\A i \in Items : ExpandFrame(i) \notin raf) =>
    \A i \in Items :
      ItemInitialized(i) =>
        /\ widgets.accordion[i].ariaExpanded = "false"
             => widgets.accordion[i].maxHeight = "0"
        /\ widgets.accordion[i].ariaExpanded = "true"
             => widgets.accordion[i].maxHeight = "full"


\* ------------------------------------------------------------------------
\* CustomCursorManager
\* ------------------------------------------------------------------------
\* hoverable text: a large title, a small body text with a paragraph inside
\* it, and a vertical-text label; the pointer is inside a chain of them
CursorEls == {"title", "body", "para", "vert"}
Hovers == {{}, {"title"}, {"body"}, {"body", "para"}, {"vert"}}
PointerStops == {0, 1, 2}
HoverClasses == {"large-text-hover", "small-text-hover", "horizontal-text-hover"}
MaxEndListeners == 2

\* initialize: returns when #custom-cursor is missing, else registers the
\* named handlers (registering them again changes nothing)
CursorInitialize ==
  /\ widgets.cursor.installed = "no"
  /\ widgets' = [widgets EXCEPT !.cursor.installed =
                   IF page.cursorEl THEN "yes" ELSE "noElement"]
  /\ UNCHANGED <<page, phase, lottieState, hide, readyRuns, timers,
                 sinceReady, bodyClasses, introDone, styles, theme, logo,
                 isAutoScrolling, scrollY, scrollJobs, raf, sec, sa, secObs,
                 pills, pillObs, thumbs, thumbObs, banner, layout, menu,
                 session, carousel, hist>>

moveCursor(c, p) ==
  LET isHorizontalMode == "horizontal-text-hover" \in c.classes
  IN IF c.activeTextHoverCount = 0 /\ ~isHorizontalMode
     THEN [c EXCEPT !.opacity = "0"]
     ELSE [c EXCEPT !.pos = p]

handleMouseEnter(c, el) ==
  IF el = "vert"
  THEN [c EXCEPT !.htmlActive = TRUE, !.opacity = "0.8",
                 !.classes = (@ \ {"large-text-hover", "small-text-hover"})
                               \cup {"horizontal-text-hover"}]
  ELSE LET n == c.activeTextHoverCount + 1
           c1 == [c EXCEPT !.activeTextHoverCount = n]
           c2 == IF c.activeTextHoverCount = 0 /\ n = 1
                 THEN [c1 EXCEPT !.htmlActive = TRUE, !.opacity = "0.8"]
                 ELSE IF n > 0 /\ c.opacity = "0"
                      THEN [c1 EXCEPT !.htmlActive = TRUE, !.opacity = "0.8"]
                      ELSE c1
       IN IF n > 0
          THEN IF el = "title"
               THEN [c2 EXCEPT !.classes =
                       (@ \cup {"large-text-hover"})
                         \ {"small-text-hover", "horizontal-text-hover"}]
               ELSE [c2 EXCEPT !.classes =
                       (@ \cup {"small-text-hover"})
                         \ {"large-text-hover", "horizontal-text-hover"}]
          ELSE c2

\* handleMouseLeave that does not clamp the count at 0
handleMouseLeave_NoClamp(c, el) ==
  IF el = "vert"
  THEN [c EXCEPT !.htmlActive = FALSE, !.opacity = "0", !.onEnd = @ + 1]
  ELSE LET n == c.activeTextHoverCount - 1
       IN IF n <= 0
          THEN [c EXCEPT !.activeTextHoverCount = n, !.htmlActive = FALSE,
                         !.opacity = "0", !.classes = @ \ HoverClasses]
          ELSE [c EXCEPT !.activeTextHoverCount = n]

handleMouseLeave(c, el) ==
  IF el = "vert"
  THEN [c EXCEPT !.htmlActive = FALSE, !.opacity = "0", !.onEnd = @ + 1]
  ELSE LET n == c.activeTextHoverCount - 1
       IN IF n <= 0
          THEN [c EXCEPT !.activeTextHoverCount = 0, !.htmlActive = FALSE,
                         !.opacity = "0", !.classes = @ \ HoverClasses]
          ELSE [c EXCEPT !.activeTextHoverCount = n]

\* the pointer enters an element; the handler runs when it is registered
MouseEnter(el) ==
  /\ el \notin widgets.cursor.over
  /\ widgets.cursor.over \cup {el} \in Hovers
  /\ LET c == [widgets.cursor EXCEPT !.over = @ \cup {el}]
     IN widgets' = [widgets EXCEPT !.cursor =
                      IF c.installed = "yes" THEN handleMouseEnter(c, el)
                      ELSE c]
  /\ UNCHANGED <<page, phase, lottieState, hide, readyRuns, timers,
                 sinceReady, bodyClasses, introDone, styles, theme, logo,
                 isAutoScrolling, scrollY, scrollJobs, raf, sec, sa, secObs,
                 pills, pillObs, thumbs, thumbObs, banner, layout, menu,
                 session, carousel, hist>>

MouseLeave(el) ==
  /\ el \in widgets.cursor.over
  /\ widgets.cursor.over \ {el} \in Hovers
  /\ el = "vert" /\ widgets.cursor.installed = "yes"
       => widgets.cursor.onEnd < MaxEndListeners
  /\ LET c == [widgets.cursor EXCEPT !.over = @ \ {el}]
     IN widgets' = [widgets EXCEPT !.cursor =
                      IF c.installed = "yes" THEN handleMouseLeave(c, el)
                      ELSE c]
  /\ UNCHANGED <<page, phase, lottieState, hide, readyRuns, timers,
                 sinceReady, bodyClasses, introDone, styles, theme, logo,
                 isAutoScrolling, scrollY, scrollJobs, raf, sec, sa, secObs,
                 pills, pillObs, thumbs, thumbObs, banner, layout, menu,
                 session, carousel, hist>>

MouseMove(p) ==
  /\ p # widgets.cursor.pointer
  /\ LET c == [widgets.cursor EXCEPT !.pointer = p]
     IN widgets' = [widgets EXCEPT !.cursor =
                      IF c.installed = "yes" THEN moveCursor(c, p) ELSE c]
  /\ UNCHANGED <<page, phase, lottieState, hide, readyRuns, timers,
                 sinceReady, bodyClasses, introDone, styles, theme, logo,
                 isAutoScrolling, scrollY, scrollJobs, raf, sec, sa, secObs,
                 pills, pillObs, thumbs, thumbObs, banner, layout, menu,
                 session, carousel, hist>>

\* 'transitionend' on the cursor: every pending onEnd listener runs, and on
\* propertyName 'opacity' removes 'horizontal-text-hover' and itself
CursorTransitionEnd(prop) ==
  /\ widgets.cursor.onEnd > 0
  /\ prop = "opacity"
  /\ widgets' = [widgets EXCEPT
                   !.cursor.classes = @ \ {"horizontal-text-hover"},
                   !.cursor.onEnd = 0]
  /\ UNCHANGED <<page, phase, lottieState, hide, readyRuns, timers,
                 sinceReady, bodyClasses, introDone, styles, theme, logo,
                 isAutoScrolling, scrollY, scrollJobs, raf, sec, sa, secObs,
                 pills, pillObs, thumbs, thumbObs, banner, layout, menu,
                 session, carousel, hist>>

InitCursor ==
  \E el \in BOOLEAN :
    InitWith([BasePage EXCEPT !.cursorEl = el], "none", "")

NextCursor ==
  \/ CursorInitialize
  \/ \E el \in CursorEls : MouseEnter(el)
  \/ \E el \in CursorEls : MouseLeave(el)
  \/ \E p \in PointerStops : MouseMove(p)
  \/ \E prop \in {"opacity"} : CursorTransitionEnd(prop)

SpecCursor == InitCursor /\ [][NextCursor]_vars

\* C40: activeTextHoverCount is never negative, the cursor carries at most
\* one of large-text-hover, small-text-hover and horizontal-text-hover, and
\* a mousemove handled while the count is 0 and horizontal mode is off
\* leaves the cursor at opacity '0' where it was
C40_CursorStateConsistent ==
  /\ [](/\ widgets.cursor.activeTextHoverCount >= 0
        /\ Cardinality(widgets.cursor.classes \cap HoverClasses) <= 1)
  /\ [][(/\ widgets.cursor.installed = "yes"
         /\ widgets'.cursor.pointer # widgets.cursor.pointer
         /\ widgets.cursor.activeTextHoverCount = 0
         /\ "horizontal-text-hover" \notin widgets.cursor.classes)
        => /\ widgets'.cursor.opacity = "0"
           /\ widgets'.cursor.pos = widgets.cursor.pos]_vars

\* the handlers were registered while the pointer was inside the body text;
\* the pointer then left it (count clamped at 0) and passed over the vertical
\* label, whose class is still on the cursor, which has been moved
C40_Witness ==
  /\ widgets.cursor.installed = "yes"
  /\ widgets.cursor.over = {}
  /\ widgets.cursor.activeTextHoverCount = 0
  /\ widgets.cursor.classes = {"horizontal-text-hover"}
  /\ widgets.cursor.onEnd > 0
  /\ widgets.cursor.opacity = "0"
  /\ widgets.cursor.pos # 0

====
